---- MODULE Spec2Model ----
(***************************************************************************)
(* BuildSense logistics and supply-routing engine.                         *)
(*                                                                         *)
(*   optimize_truck_loads  greedy knapsack packing (logistics_engine.py)   *)
(*   solve_routes          CVRP with greedy fallback (logistics_engine.py) *)
(*   _clarke_wright        savings merge             (supply_engine.py)    *)
(*   plan_supply           sourcing, routing, plan   (supply_engine.py)    *)
(*                                                                         *)
(* Units.  Python floats are modelled by integers in a fixed unit:         *)
(*   distances            metres        (km * 1000)                        *)
(*   supply weights       grams         (kg * 1000), so round(x, 2) is a   *)
(*                                      rounding to the nearest 10 g       *)
(*   knapsack weights     half kg       (kg * 2), so int(used) truncates   *)
(*   requested quantities half units    (qty * 2), so round(qty) rounds    *)
(*   CO2                  1e-4 kg, then 1e-2 kg after the second rounding  *)
(***************************************************************************)
EXTENDS Integers, Sequences, FiniteSets, TLC

VARIABLES
    \* optimize_truck_loads: the caller's inputs and the function's locals
    materials, order_quantities, trucks, rain_expected,
    items, assignments, pcPack,
    \* solve_routes
    depot, sites, vehicle_capacity_kg, ortools, routes_idx, routeK, pcRoute,
    \* _clarke_wright
    cw_depot, cw_stops, cw_capacity, routes, savings, savIdx, stop_to_route,
    cw_log, cwpc,
    \* plan_supply
    dest, requirements, network, picks, shortfalls, by_store, by_depot,
    net, depot_plans, summary, reqIdx, depotIdx, pcPlan,
    \* history of the previous plan_supply call on the same inputs
    calls, prev_picks, prev_shortfalls,
    \* calculate_emissions and _co2 applied to one set of arguments
    em_distance, em_quantity, em_capacity, em_calc, em_co2,
    \* the site server: the pending-reorder queue and the material phases of
    \* one project, the answer to the last request, and the ids of the orders
    \* whose stock was added to a phase (history)
    pending_reorders, history, site_configured, response, stock_added,
    requests

packVars  == <<materials, order_quantities, trucks, rain_expected,
               items, assignments, pcPack>>
routeVars == <<depot, sites, vehicle_capacity_kg, ortools, routes_idx,
               routeK, pcRoute>>
cwVars    == <<cw_depot, cw_stops, cw_capacity, routes, savings, savIdx,
               stop_to_route, cw_log, cwpc>>
planVars  == <<dest, requirements, network, picks, shortfalls, by_store,
               by_depot, net, depot_plans, summary, reqIdx, depotIdx,
               pcPlan, calls, prev_picks, prev_shortfalls>>
emitVars  == <<em_distance, em_quantity, em_capacity, em_calc, em_co2>>
siteVars  == <<pending_reorders, history, site_configured, response,
               stock_added, requests>>
vars      == <<packVars, routeVars, cwVars, planVars, emitVars, siteVars>>

(***************************************************************************)
(* Bounds of the model                                                     *)
(***************************************************************************)
MaxTrucks == 2      \* trucks handed to optimize_truck_loads and solve_routes
MaxSites  == 2      \* delivery sites handed to solve_routes
MaxStops  == 3      \* stops handed to _clarke_wright
MaxStores == 2      \* stores of the supply network
MaxDepots == 2      \* depots of the supply network
MaxReqs   == 2      \* requirements of one plan_supply call
MaxCalls  == 2      \* successive plan_supply calls on the same inputs
MaxRequests == 4    \* requests sent to the site server

(***************************************************************************)
(* Generic helpers                                                         *)
(***************************************************************************)
Min2(a, b) == IF a <= b THEN a ELSE b
Max2(a, b) == IF a >= b THEN a ELSE b

RECURSIVE SumSeq(_)
SumSeq(s) == IF s = <<>> THEN 0 ELSE Head(s) + SumSeq(Tail(s))

Reverse(s) == [k \in 1..Len(s) |-> s[Len(s) + 1 - k]]

SeqToSet(s) == {s[k] : k \in 1..Len(s)}

\* Sequences over S of length lo..hi
SeqsOf(S, lo, hi) == UNION {[1..n -> S] : n \in lo..hi}

\* Python round(): n/d rounded to the nearest integer, ties to even (d > 0)
RoundHalfEven(n, d) ==
    LET q == n \div d
        r == n % d
    IN  IF 2 * r < d THEN q
        ELSE IF 2 * r > d THEN q + 1
        ELSE IF q % 2 = 0 THEN q ELSE q + 1

RECURSIVE Gcd(_, _)
Gcd(a, b) == IF b = 0 THEN a ELSE Gcd(b, a % b)

\* x * num / den rounded as Python rounds, the fraction num/den reduced
\* first so that the product stays within TLC's integers
RoundScaled(x, num, den) ==
    LET g == Gcd(num, den)
    IN  RoundHalfEven(x * (num \div g), den \div g)

\* round(x, 2) of a value held in thousandths: the nearest multiple of 10
Round2(x) == 10 * RoundHalfEven(x, 10)

(***************************************************************************)
(* Geometry.  Coordinates are whole degrees, latitude 0..1 and longitude   *)
(* 0..2; HaversineM holds the value of the haversine formula (R = 6371 km) *)
(* for each pair, in metres, indexed [lat1+1][lat2+1][|lon1-lon2|+1].      *)
(***************************************************************************)
HaversineM ==
    << << <<0, 111195, 222390>>,      <<111195, 157249, 248629>> >>,
       << <<111195, 157249, 248629>>, <<0, 111178, 222356>> >> >>

haversine(lat1, lon1, lat2, lon2) ==
    HaversineM[lat1 + 1][lat2 + 1][(IF lon1 >= lon2 THEN lon1 - lon2 ELSE lon2 - lon1) + 1]

\* The places the inputs are drawn from
Places == {<<0, 0>>, <<0, 1>>, <<0, 2>>, <<1, 0>>, <<1, 1>>}

(***************************************************************************)
(* optimize_truck_loads                                                    *)
(***************************************************************************)
MaterialNames == {"Cement", "Steel"}
OrderNames    == {"Cement", "Steel", "Gravel"}   \* Gravel is in no materials map
RainSensitive == {"Cement", "Sand", "Wood"}

\* prio = min(10, int(prio * 1.5)) for a sensitive material under rain
BoostedPriority(name, prio, rain) ==
    IF rain /\ name \in RainSensitive THEN Min2(10, (prio * 3) \div 2) ELSE prio

\* int(round(qty)) with qty held in half units
Demand(qty2) == RoundHalfEven(qty2, 2)

\* One item of the pool; ratio = prio / weight if weight > 0 else 0.0 is kept
\* as the fraction rnum / rden
Item(name, mats, rain) ==
    LET w == mats[name].weight_per_unit
        p == BoostedPriority(name, mats[name].priority, rain)
    IN  [material |-> name, weight |-> w, priority |-> p,
         rnum |-> IF w > 0 THEN p ELSE 0, rden |-> IF w > 0 THEN w ELSE 1]

\* Faulty variant: an item of equal ratio overtakes those sorted before it
RatioAtLeast(a, b) == a.rnum * b.rden >= b.rnum * a.rden

RatioGreater(a, b) == a.rnum * b.rden > b.rnum * a.rden

\* The item list before sorting: demand copies per ordered material, in the
\* order of the order_quantities dict; names missing from materials skipped
RECURSIVE BuildItems(_, _, _)
BuildItems(order, mats, rain) ==
    IF order = <<>> THEN <<>>
    ELSE LET e == Head(order)
             d == Demand(e.qty2)
             block == IF e.name \in DOMAIN mats /\ d > 0
                      THEN [k \in 1..d |-> Item(e.name, mats, rain)]
                      ELSE <<>>
         IN  block \o BuildItems(Tail(order), mats, rain)

\* items.sort(key=ratio, reverse=True): stable, descending
RECURSIVE InsertByRatio(_, _)
InsertByRatio(sorted, it) ==
    IF sorted = <<>> THEN <<it>>
    ELSE IF RatioGreater(it, Head(sorted))
         THEN <<it>> \o sorted
         ELSE <<Head(sorted)>> \o InsertByRatio(Tail(sorted), it)

RECURSIVE SortItems(_)
SortItems(s) ==
    IF s = <<>> THEN <<>>
    ELSE InsertByRatio(SortItems(SubSeq(s, 1, Len(s) - 1)), s[Len(s)])

\* Faulty variant: a truck may not be filled to exactly its capacity
FitsBelow(used, weight, capacity_kg) == used + weight < 2 * capacity_kg

\* Faulty variant: the weight already on the truck is forgotten
FitsAlone(used, weight, capacity_kg) == weight <= 2 * capacity_kg

\* if used + item["weight"] <= capacity_kg   (weights in half kg)
Fits(used, weight, capacity_kg) == used + weight <= 2 * capacity_kg

\* Faulty variant: the truck is closed at the first item that does not fit
RECURSIVE PackLoopStopping(_, _, _, _, _)
PackLoopStopping(pool, capacity_kg, used, loaded, rest) ==
    IF pool = <<>> THEN [loaded |-> loaded, used |-> used, rest |-> rest]
    ELSE LET it == Head(pool)
         IN  IF Fits(used, it.weight, capacity_kg)
             THEN PackLoopStopping(Tail(pool), capacity_kg, used + it.weight,
                                   Append(loaded, it.material), rest)
             ELSE [loaded |-> loaded, used |-> used, rest |-> rest \o pool]

\* Faulty variant: a loaded item stays in the pool for the next truck
RECURSIVE PackLoopKeeping(_, _, _, _, _)
PackLoopKeeping(pool, capacity_kg, used, loaded, rest) ==
    IF pool = <<>> THEN [loaded |-> loaded, used |-> used, rest |-> rest]
    ELSE LET it == Head(pool)
         IN  IF Fits(used, it.weight, capacity_kg)
             THEN PackLoopKeeping(Tail(pool), capacity_kg, used + it.weight,
                                  Append(loaded, it.material), Append(rest, it))
             ELSE PackLoopKeeping(Tail(pool), capacity_kg, used, loaded,
                                  Append(rest, it))

\* The inner loop over items[:] for one truck: what is loaded, the weight
\* used (half kg) and the pool left for the next truck
RECURSIVE PackLoop(_, _, _, _, _)
PackLoop(pool, capacity_kg, used, loaded, rest) ==
    IF pool = <<>> THEN [loaded |-> loaded, used |-> used, rest |-> rest]
    ELSE LET it == Head(pool)
         IN  IF Fits(used, it.weight, capacity_kg)
             THEN PackLoop(Tail(pool), capacity_kg, used + it.weight,
                           Append(loaded, it.material), rest)
             ELSE PackLoop(Tail(pool), capacity_kg, used, loaded, Append(rest, it))

\* TruckAssignment(...) with used_capacity_kg = int(used)
NewAssignment(truck, packed) ==
    [truck_id         |-> truck.truck_id,
     capacity_kg      |-> truck.capacity_kg,
     materials_loaded |-> packed.loaded,
     used_capacity_kg |-> packed.used \div 2,
     route            |-> <<>>,
     distance_km      |-> 0,
     co2_kg           |-> 0]

(***************************************************************************)
(* _clarke_wright                                                          *)
(*                                                                         *)
(* A stop is [id, lat, lon, demand_kg]; a route is [key, stops, load_kg,   *)
(* km] where key is the key of the routes dict; the dict is the sequence   *)
(* of its entries in insertion order.                                      *)
(***************************************************************************)
StopById(stops, id) == CHOOSE s \in SeqToSet(stops) : s.id = id

DepotDist(dp, s) == haversine(dp.lat, dp.lon, s.lat, s.lon)

\* routes[s["id"]] = _Route(stops=[s["id"]], load_kg=s["demand_kg"], km=2 * d)
SeedRoute(dp, s) ==
    [key |-> s.id, stops |-> <<s.id>>, load_kg |-> s.demand_kg,
     km |-> 2 * DepotDist(dp, s)]

SeedRoutes(dp, stops) == [k \in 1..Len(stops) |-> SeedRoute(dp, stops[k])]

\* sav = d0a + d0b - dab
Saving(dp, a, b) ==
    DepotDist(dp, a) + DepotDist(dp, b) - haversine(a.lat, a.lon, b.lat, b.lon)

\* The pairs (i < j) in the order of the two nested loops
RECURSIVE PairsFrom(_, _, _)
PairsFrom(n, i, j) ==
    IF i >= n THEN <<>>
    ELSE IF j > n THEN PairsFrom(n, i + 1, i + 2)
    ELSE <<(<<i, j>>)>> \o PairsFrom(n, i, j + 1)

UnsortedSavings(dp, stops) ==
    LET prs == PairsFrom(Len(stops), 1, 2)
    IN  [k \in 1..Len(prs) |->
            [sav |-> Saving(dp, stops[prs[k][1]], stops[prs[k][2]]),
             si  |-> stops[prs[k][1]].id,
             sj  |-> stops[prs[k][2]].id]]

\* savings.sort(key=lambda x: -x[0]): stable, largest saving first
RECURSIVE InsertBySaving(_, _)
InsertBySaving(sorted, e) ==
    IF sorted = <<>> THEN <<e>>
    ELSE IF e.sav > Head(sorted).sav
         THEN <<e>> \o sorted
         ELSE <<Head(sorted)>> \o InsertBySaving(Tail(sorted), e)

RECURSIVE SortSavings(_)
SortSavings(s) ==
    IF s = <<>> THEN <<>>
    ELSE InsertBySaving(SortSavings(SubSeq(s, 1, Len(s) - 1)), s[Len(s)])

\* Position in the dict of the route stored under key
RouteIndex(rts, key) == CHOOSE k \in 1..Len(rts) : rts[k].key = key

RemoveAt(s, k) == SubSeq(s, 1, k - 1) \o SubSeq(s, k + 1, Len(s))

\* depot -> first stop -> ... -> last stop -> depot
RECURSIVE LegsKm(_, _)
LegsKm(stops, ids) ==
    IF Len(ids) < 2 THEN 0
    ELSE LET a == StopById(stops, ids[1])
             b == StopById(stops, ids[2])
         IN  haversine(a.lat, a.lon, b.lat, b.lon) + LegsKm(stops, Tail(ids))

MergedKm(dp, stops, ids) ==
    DepotDist(dp, StopById(stops, ids[1]))
    + LegsKm(stops, ids)
    + DepotDist(dp, StopById(stops, ids[Len(ids)]))

\* Faulty variant: the loop goes on through pairs that save nothing
SavingStopsBelowZero(sav) == sav < 0

\* if sav <= 0: break
SavingStops(sav) == sav <= 0

\* Faulty variant: the merged load is written into the caller's stop record
StopsAliased(stops, rts, kind) ==
    IF kind # "merge" THEN stops
    ELSE LET m == rts[Len(rts)]
         IN  [k \in 1..Len(stops) |->
                 IF stops[k].id = m.key
                 THEN [stops[k] EXCEPT !.demand_kg = m.load_kg] ELSE stops[k]]

\* The caller's stop list after one turn of the merge loop: the loop writes
\* to routes and stop_to_route only (rts and kind are the turn's outcome)
StopsAfterTurn(stops, rts, kind) == stops

\* Faulty variant: a merge that fills the ceiling exactly is rejected
OverCapacityAtLimit(load_i, load_j, capacity_kg) == load_i + load_j >= capacity_kg

\* if r_i.load_kg + r_j.load_kg > capacity_kg: continue
OverCapacity(load_i, load_j, capacity_kg) == load_i + load_j > capacity_kg

\* Faulty variant: any stop of a route is accepted as a merge point
AtAnyStop(r, sid) == sid \in SeqToSet(r.stops)

\* si (sj) is the first or the last stop of its route
AtEndpoint(r, sid) == r.stops[Len(r.stops)] = sid \/ r.stops[1] = sid

\* Faulty variant: only the stops that came from r_j are remapped
RemappedTailOnly(s2r, merged_stops, new_key) ==
    [sid \in DOMAIN s2r |->
        IF sid \in SeqToSet(merged_stops) /\ s2r[sid] # s2r[new_key]
        THEN new_key ELSE s2r[sid]]

\* for sid in merged_stops: stop_to_route[sid] = new_key
Remapped(s2r, merged_stops, new_key) ==
    [sid \in DOMAIN s2r |->
        IF sid \in SeqToSet(merged_stops) THEN new_key ELSE s2r[sid]]

\* The body of the merge loop for one pair with sav > 0.  Returns the routes
\* dict, stop_to_route and what happened: "same" (one route already),
\* "interior" (an endpoint test failed), "capacity" (rejected after the two
\* in-place reversals) or "merge".
MergeBody(dp, stops, capacity_kg, rts, s2r, e) ==
    LET rk_i == s2r[e.si]
        rk_j == s2r[e.sj]
    IN  IF rk_i = rk_j
        THEN [routes |-> rts, stop_to_route |-> s2r, kind |-> "same"]
        ELSE
        LET ki  == RouteIndex(rts, rk_i)
            kj  == RouteIndex(rts, rk_j)
            r_i == rts[ki]
            r_j == rts[kj]
        IN  IF ~AtEndpoint(r_i, e.si) \/ ~AtEndpoint(r_j, e.sj)
            THEN [routes |-> rts, stop_to_route |-> s2r, kind |-> "interior"]
            ELSE
            LET \* r_i.stops.reverse() / r_j.stops.reverse(), in place
                f_i == IF r_i.stops[1] = e.si
                       THEN [r_i EXCEPT !.stops = Reverse(r_i.stops)] ELSE r_i
                f_j == IF r_j.stops[Len(r_j.stops)] = e.sj
                       THEN [r_j EXCEPT !.stops = Reverse(r_j.stops)] ELSE r_j
                flipped == [rts EXCEPT ![ki] = f_i, ![kj] = f_j]
            IN  IF OverCapacity(f_i.load_kg, f_j.load_kg, capacity_kg)
                THEN [routes |-> flipped, stop_to_route |-> s2r,
                      kind |-> "capacity"]
                ELSE
                LET merged_stops == f_i.stops \o f_j.stops
                    new_key      == merged_stops[1]
                    merged == [key     |-> new_key,
                               stops   |-> merged_stops,
                               load_kg |-> f_i.load_kg + f_j.load_kg,
                               km      |-> MergedKm(dp, stops, merged_stops)]
                    \* del routes[rk_i]; del routes[rk_j]; routes[new_key] = merged
                    kept == SelectSeq(flipped,
                                LAMBDA r : r.key # rk_i /\ r.key # rk_j)
                IN  [routes |-> Append(kept, merged),
                     stop_to_route |-> Remapped(s2r, merged_stops, new_key),
                     kind |-> "merge"]

(***************************************************************************)
(* plan_supply                                                             *)
(*                                                                         *)
(* network = [depots, stores]; a depot is [id, lat, lon, trucks] with      *)
(* trucks a list of [id, cap] (cap in kg); a store is [id, lat, lon,       *)
(* inventory] with inventory a map material -> units.  A requirement is    *)
(* [material, qty, unit_weight] with unit_weight in grams per unit.        *)
(***************************************************************************)
DefaultTruckCap == 16000     \* trucks = [{"id": f"{did}-T1", "cap": 16000}]
ShortfallEps    == 1         \* if remaining > 1e-3  (kg, here 1 g)

\* load_network(): the parsed contents of supply_network.json, or the empty
\* network when the file does not exist.  The file is [exists, depots,
\* stores].
load_network(file) ==
    IF ~file.exists THEN [depots |-> <<>>, stores |-> <<>>]
    ELSE [depots |-> file.depots, stores |-> file.stores]

\* avail_units = float(inv.get(mat, 0))
AvailUnits(store, mat) ==
    IF mat \in DOMAIN store.inventory THEN store.inventory[mat] ELSE 0

\* candidates, before sorting: the stores that carry the material
RECURSIVE CandidatesOf(_, _, _, _)
CandidatesOf(stores, dst, mat, unit_weight) ==
    IF stores = <<>> THEN <<>>
    ELSE LET st == Head(stores)
             u  == AvailUnits(st, mat)
             rest == CandidatesOf(Tail(stores), dst, mat, unit_weight)
         IN  IF u > 0
             THEN <<[dist |-> haversine(dst.lat, dst.lon, st.lat, st.lon),
                     store |-> st, avail_units |-> u,
                     avail_kg |-> u * unit_weight]>> \o rest
             ELSE rest

\* candidates.sort(key=lambda x: x[0]): stable, nearest first
RECURSIVE InsertByDist(_, _)
InsertByDist(sorted, c) ==
    IF sorted = <<>> THEN <<c>>
    ELSE IF c.dist < Head(sorted).dist
         THEN <<c>> \o sorted
         ELSE <<Head(sorted)>> \o InsertByDist(Tail(sorted), c)

\* Faulty variant: the candidates are left in the order of the network
SortCandidatesUnsorted(s) == s

RECURSIVE SortCandidates(_)
SortCandidates(s) ==
    IF s = <<>> THEN <<>>
    ELSE InsertByDist(SortCandidates(SubSeq(s, 1, Len(s) - 1)), s[Len(s)])

\* Faulty variants: the draw ignores what is left to source, or what the
\* store holds
TakeAllAvailable(avail_kg, remaining) == avail_kg
TakeAllRemaining(avail_kg, remaining) == remaining

\* take_kg = min(avail_kg, remaining)
TakeKg(avail_kg, remaining) == Min2(avail_kg, remaining)

\* The pick appended for one candidate.  weight_kg = round(take_kg, 2) and
\* qty_units = round(take_kg / unit_weight, 2) (hundredths of a unit); req,
\* take_kg and avail_kg are history fields: the requirement the pick serves,
\* the amount drawn before rounding and the store's stock at that moment.
NewPick(c, mat, unit_weight, take_kg, req) ==
    [store_id  |-> c.store.id,
     lat       |-> c.store.lat,
     lon       |-> c.store.lon,
     material  |-> mat,
     qty_units |-> RoundHalfEven(100 * take_kg, unit_weight),
     weight_kg |-> Round2(take_kg),
     dist_to_dest_km |-> 100 * RoundHalfEven(c.dist, 100),
     req       |-> req,
     take_kg   |-> take_kg,
     avail_kg  |-> c.avail_kg]

\* for dist, s, avail_units, avail_kg in candidates: ... remaining -= take_kg
RECURSIVE DrawLoop(_, _, _, _, _, _)
DrawLoop(cands, mat, unit_weight, remaining, req, acc) ==
    IF cands = <<>> \/ remaining <= 0
    THEN [picks |-> acc, remaining |-> remaining]
    ELSE LET c    == Head(cands)
             take == TakeKg(c.avail_kg, remaining)
         IN  DrawLoop(Tail(cands), mat, unit_weight, remaining - take, req,
                      Append(acc, NewPick(c, mat, unit_weight, take, req)))

\* needed_kg = qty_units * unit_weight
NeededKg(r) == r.qty * r.unit_weight

\* Faulty variant: any remainder at all is recorded as a shortfall
ShortfallOfAnyRemainder(r, remaining) ==
    IF remaining > 0
    THEN <<[material     |-> r.material,
            needed_kg    |-> Round2(NeededKg(r)),
            available_kg |-> Round2(NeededKg(r) - remaining),
            shortfall_kg |-> Round2(remaining)]>>
    ELSE <<>>

\* The shortfall record of one requirement, or none
ShortfallOf(r, remaining) ==
    IF remaining > ShortfallEps
    THEN <<[material     |-> r.material,
            needed_kg    |-> Round2(NeededKg(r)),
            available_kg |-> Round2(NeededKg(r) - remaining),
            shortfall_kg |-> Round2(remaining)]>>
    ELSE <<>>

\* Sourcing of one requirement against the stores
SourceOne(stores, dst, r, req) ==
    LET cands == SortCandidates(CandidatesOf(stores, dst, r.material, r.unit_weight))
        drawn == DrawLoop(cands, r.material, r.unit_weight, NeededKg(r), req, <<>>)
    IN  [picks |-> drawn.picks, shortfalls |-> ShortfallOf(r, drawn.remaining)]

\* by_store: one row per store in first-pick order
RECURSIVE AggregateByStore(_, _)
AggregateByStore(ps, acc) ==
    IF ps = <<>> THEN acc
    ELSE LET p == Head(ps)
             line == [material |-> p.material, qty |-> p.qty_units,
                      weight_kg |-> p.weight_kg]
             known == \E k \in 1..Len(acc) : acc[k].id = p.store_id
             acc1 == IF known THEN acc
                     ELSE Append(acc, [id |-> p.store_id, lat |-> p.lat,
                                       lon |-> p.lon, materials |-> <<>>,
                                       total_kg |-> 0])
             k == CHOOSE i \in 1..Len(acc1) : acc1[i].id = p.store_id
         IN  AggregateByStore(Tail(ps),
                [acc1 EXCEPT ![k].materials = Append(@, line),
                             ![k].total_kg  = @ + p.weight_kg])

\* min(depots, key=distance to the store): the first depot at least distance
NearestDepot(depots, store) ==
    LET d(k) == haversine(depots[k].lat, depots[k].lon, store.lat, store.lon)
        best == CHOOSE k \in 1..Len(depots) :
                   /\ \A m \in 1..Len(depots) : d(k) <= d(m)
                   /\ \A m \in 1..(k - 1) : d(m) > d(k)
    IN  depots[best]

\* by_depot: one entry per depot in first-use order
RECURSIVE GroupByDepot(_, _, _)
GroupByDepot(depots, rows, acc) ==
    IF rows = <<>> THEN acc
    ELSE LET st == Head(rows)
             nd == NearestDepot(depots, st)
             known == \E k \in 1..Len(acc) : acc[k].depot.id = nd.id
             acc1 == IF known THEN acc
                     ELSE Append(acc, [depot |-> nd, stores |-> <<>>])
             k == CHOOSE i \in 1..Len(acc1) : acc1[i].depot.id = nd.id
         IN  GroupByDepot(depots, Tail(rows),
                          [acc1 EXCEPT ![k].stores = Append(@, st)])

\* trucks of a depot, caps in grams; the default truck when it has none
TrucksOf(dp) ==
    IF dp.trucks = <<>>
    THEN <<[id |-> "T1", cap |-> DefaultTruckCap * 1000]>>
    ELSE [k \in 1..Len(dp.trucks) |->
            [id |-> dp.trucks[k].id, cap |-> dp.trucks[k].cap * 1000]]

\* max_cap = max(t["cap"] for t in trucks)
MaxCap(tr) == CHOOSE c \in {tr[k].cap : k \in 1..Len(tr)} :
                 \A k \in 1..Len(tr) : tr[k].cap <= c

\* The capacity ceiling handed to _clarke_wright
CapacityCeiling(tr) == MaxCap(tr)

\* cw_stops: demand_kg = total kg the store needs picked up
CwStops(rows) ==
    [k \in 1..Len(rows) |->
        [id |-> rows[k].id, lat |-> rows[k].lat, lon |-> rows[k].lon,
         demand_kg |-> rows[k].total_kg]]

\* Faulty variant: every route of a depot goes to the depot's first truck
TruckAlwaysFirst(tr, truck_idx) == tr[1]

\* truck = trucks[truck_idx % len(trucks)]
TruckFor(tr, truck_idx) == tr[(truck_idx % Len(tr)) + 1]

\* _co2(distance_km, load_kg, capacity_kg), in hundredths of a kg
\* (distance in metres, weights in grams)
Co2(distance, load_kg, capacity_kg) ==
    IF capacity_kg = 0 \/ distance = 0 THEN 0
    ELSE LET low == 100 * load_kg < capacity_kg     \* load/cap < 0.01
             un  == IF low THEN 1 ELSE load_kg
             ud  == IF low THEN 100 ELSE capacity_kg
         IN  RoundScaled(distance, 12 * ud, 1000 * un)

\* One truck assignment of a depot plan
NewPlanAssignment(dst, rows, route, truck) ==
    LET last     == CHOOSE st \in SeqToSet(rows) :
                        st.id = route.stops[Len(route.stops)]
        total_km == Round2(route.km + haversine(last.lat, last.lon, dst.lat, dst.lon))
    IN  [truck_id    |-> truck.id,
         capacity_kg |-> truck.cap,
         load_kg     |-> Round2(route.load_kg),
         util_pct    |-> RoundHalfEven(route.load_kg * 1000, truck.cap),
         stops       |-> route.stops,
         distance_km |-> total_km,
         co2_kg      |-> Co2(total_km, route.load_kg, truck.cap)]

\* Faulty variant: routes beyond the number of trucks get no truck
AssignTrucksNoReuse(dst, rows, rts, tr) ==
    [k \in 1..Min2(Len(rts), Len(tr)) |->
        NewPlanAssignment(dst, rows, rts[k], tr[k])]

\* Round-robin assignment of the routes of one depot to its trucks
AssignTrucks(dst, rows, rts, tr) ==
    [k \in 1..Len(rts) |-> NewPlanAssignment(dst, rows, rts[k], TruckFor(tr, k - 1))]

AllAssignments(plans) ==
    LET RECURSIVE Flat(_)
        Flat(ps) == IF ps = <<>> THEN <<>>
                    ELSE Head(ps).assignments \o Flat(Tail(ps))
    IN  Flat(plans)

\* summary of the plan
Summary(plans, rows, shorts) ==
    LET all == AllAssignments(plans)
    IN  [total_trucks   |-> Len(all),
         total_kg       |-> Round2(SumSeq([k \in 1..Len(all) |-> all[k].load_kg])),
         total_km       |-> Round2(SumSeq([k \in 1..Len(all) |-> all[k].distance_km])),
         total_co2_kg   |-> SumSeq([k \in 1..Len(all) |-> all[k].co2_kg]),
         depots_used    |-> Len(plans),
         stores_sourced |-> Len(rows),
         shortfalls     |-> Len(shorts)]

(***************************************************************************)
(* solve_routes                                                            *)
(*                                                                         *)
(* Locations are indexed 0 (the depot) and 1..n (the sites in input        *)
(* order); a route is a sequence of indices.                               *)
(***************************************************************************)
\* dist_matrix[i][j] of _build_distance_matrix
Location(dp, sts, i) == IF i = 0 THEN dp ELSE sts[i]

Dist(dp, sts, i, j) ==
    IF i = j THEN 0
    ELSE LET a == Location(dp, sts, i)
             b == Location(dp, sts, j)
         IN  haversine(a.lat, a.lon, b.lat, b.lon)

\* Positions in assignments of the trucks with used_capacity_kg > 0 (== 0)
RECURSIVE IndicesWhere(_, _, _)
IndicesWhere(asg, k, active) ==
    IF k > Len(asg) THEN <<>>
    ELSE LET rest == IndicesWhere(asg, k + 1, active)
         IN  IF (asg[k].used_capacity_kg > 0) = active THEN <<k>> \o rest ELSE rest

ActiveIdx(asg) == IndicesWhere(asg, 1, TRUE)
IdleIdx(asg)   == IndicesWhere(asg, 1, FALSE)

\* Faulty variant: among equally near sites the last of the list is taken
NearestLast(dp, sts, current, unvisited) ==
    LET d(k) == Dist(dp, sts, current, unvisited[k])
    IN  CHOOSE k \in 1..Len(unvisited) :
            /\ \A m \in 1..Len(unvisited) : d(k) <= d(m)
            /\ \A m \in (k + 1)..Len(unvisited) : d(m) > d(k)

\* min(unvisited, key=lambda j: dist_matrix[current][j]): the first nearest
Nearest(dp, sts, current, unvisited) ==
    LET d(k) == Dist(dp, sts, current, unvisited[k])
        best == CHOOSE k \in 1..Len(unvisited) :
                   /\ \A m \in 1..Len(unvisited) : d(k) <= d(m)
                   /\ \A m \in 1..(k - 1) : d(m) > d(k)
    IN  best

\* _greedy_route(0, chunk, dist_matrix): the route only
RECURSIVE GreedyFrom(_, _, _, _)
GreedyFrom(dp, sts, current, unvisited) ==
    IF unvisited = <<>> THEN <<0>>
    ELSE LET k == Nearest(dp, sts, current, unvisited)
         IN  <<unvisited[k]>> \o GreedyFrom(dp, sts, unvisited[k], RemoveAt(unvisited, k))

GreedyRoute(dp, sts, chunk) == <<0>> \o GreedyFrom(dp, sts, 0, chunk)

\* Faulty variant: the chunk size is rounded down
ChunkSizeFloor(nsites, num_vehicles) ==
    LET v == Max2(num_vehicles, 1)
    IN  Max2(1, nsites \div v)

\* chunk_size = max(1, math.ceil(len(site_indices) / max(num_vehicles, 1)))
ChunkSize(nsites, num_vehicles) ==
    LET v == Max2(num_vehicles, 1)
    IN  Max2(1, (nsites + v - 1) \div v)

\* site_indices[k * chunk_size : (k + 1) * chunk_size], k counted from 0
Chunk(nsites, chunk_size, k) ==
    LET lo == k * chunk_size + 1
        hi == Min2((k + 1) * chunk_size, nsites)
    IN  IF lo > hi THEN <<>> ELSE [m \in 1..(hi - lo + 1) |-> lo + m - 1]

\* Faulty variant: a truck whose chunk is empty gets no route at all
FallbackRoutesNonEmpty(dp, sts, num_vehicles) ==
    LET cs == ChunkSize(Len(sts), num_vehicles)
        used == {k \in 1..num_vehicles : Chunk(Len(sts), cs, k - 1) # <<>>}
    IN  [k \in 1..Cardinality(used) |->
            GreedyRoute(dp, sts, Chunk(Len(sts), cs, k - 1))]

\* The routes of the greedy fallback, one per active truck
FallbackRoutes(dp, sts, num_vehicles) ==
    LET cs == ChunkSize(Len(sts), num_vehicles)
    IN  [k \in 1..num_vehicles |->
            LET chunk == Chunk(Len(sts), cs, k - 1)
            IN  IF chunk # <<>> THEN GreedyRoute(dp, sts, chunk) ELSE <<0, 0>>]

\* sum(dist_matrix[route_idx[i]][route_idx[i + 1]])
RouteKm(dp, sts, r) ==
    SumSeq([k \in 1..(Len(r) - 1) |-> Dist(dp, sts, r[k], r[k + 1])])

\* Orders in which a set of sites can be visited
RECURSIVE Perms(_)
Perms(S) ==
    IF S = {} THEN {<<>>}
    ELSE UNION {{<<x>> \o p : p \in Perms(S \ {x})} : x \in S}

\* What the OR-Tools solver can hand back when it finds a solution: one
\* route per vehicle from the depot to the depot, every site on exactly one
\* route, the demand of each route within vehicle_capacity
SolverSolutions(sts, capacity, num_vehicles) ==
    LET n == Len(sts)
        Load(f, v) == SumSeq([k \in 1..n |-> IF f[k] = v THEN sts[k].demand ELSE 0])
        Fs == {f \in [1..n -> 1..num_vehicles] :
                  \A v \in 1..num_vehicles : Load(f, v) <= capacity}
        RECURSIVE From(_, _)
        From(f, v) ==
            IF v > num_vehicles THEN {<<>>}
            ELSE {<<(<<0>> \o p \o <<0>>)>> \o rest :
                     p \in Perms({k \in 1..n : f[k] = v}), rest \in From(f, v + 1)}
    IN  UNION {From(f, 1) : f \in Fs}

\* Faulty variant: the estimate ignores how full the truck is
EmissionsPerKm(distance, quantity, truck_capacity) ==
    IF truck_capacity = 0 \/ distance = 0 THEN 0
    ELSE RoundScaled(distance, 12, 10)

\* calculate_emissions(distance, quantity, truck_capacity), in 1e-4 kg
\* (distance in metres): round(distance * 0.12 * (1 / utilisation), 4)
calculate_emissions(distance, quantity, truck_capacity) ==
    IF truck_capacity = 0 \/ distance = 0 THEN 0
    ELSE LET low == 100 * quantity < truck_capacity
             un  == IF low THEN 1 ELSE quantity
             ud  == IF low THEN 100 ELSE truck_capacity
         IN  RoundScaled(distance, 12 * ud, 10 * un)

\* The assignment after its route is written: the trivial stay-at-depot
\* route, or names, round(total_km, 2) and round(co2, 2) (hundredths of a kg)
Routed(dp, sts, a, r) ==
    IF r = <<0, 0>> \/ Len(r) <= 1
    THEN [a EXCEPT !.route = <<dp.name>>, !.distance_km = 0, !.co2_kg = 0]
    ELSE LET total_km == RouteKm(dp, sts, r)
         IN  [a EXCEPT
                !.route = [k \in 1..Len(r) |-> Location(dp, sts, r[k]).name],
                !.distance_km = Round2(total_km),
                !.co2_kg = RoundHalfEven(
                    calculate_emissions(total_km, a.used_capacity_kg, a.capacity_kg),
                    100)]

\* Faulty variant: an idle truck is left as it came, without a route
MarkedIdleUnrouted(dp, a) == a

\* Mark idle trucks
MarkedIdle(dp, a) ==
    [a EXCEPT !.route = <<dp.name>>, !.distance_km = 0, !.co2_kg = 0]

(***************************************************************************)
(* The site server: pending reorders and daily usage                       *)
(*                                                                         *)
(* An item of the pending-reorder queue is [id, material, status,          *)
(* reorder_qty, batch_id]; batch_id "" stands for an entry without that    *)
(* key.  A phase is [ordered_qty, consumed_qty, remaining_stock,           *)
(* daily_usage] with daily_usage the list of the logged quantities.        *)
(* Quantities are held in units of 0.00001.                                *)
(***************************************************************************)
SiteMaterials == {"Cement", "Steel"}
BatchIds      == {"", "b1", "b2"}
Statuses      == {"approved", "rejected", "arrived"}  \* what the server passes
OrderQtys     == {100000, 200000}                     \* orders of 1 or 2 units

\* round(x, 4) of a value held in units of 0.00001
Round4(x) == 10 * RoundHalfEven(x, 10)

\* The first position of a non-empty set of positions
FirstOf(S) == CHOOSE k \in S : \A m \in S : k <= m

\* max((i["id"] for i in items), default=0) + 1
NextId(queue) ==
    IF queue = <<>> THEN 1
    ELSE 1 + (CHOOSE n \in {queue[k].id : k \in 1..Len(queue)} :
                 \A k \in 1..Len(queue) : queue[k].id <= n)

\* Faulty variant: every entry is filed as a new item
append_always(queue, entry) ==
    <<[id |-> NextId(queue), material |-> entry.material, status |-> "pending",
       reorder_qty |-> entry.reorder_qty, batch_id |-> entry.batch_id]>> \o queue

\* append_pending_reorder(entry): the items saved.  The first pending item
\* of the same material is updated in place, else the entry is inserted at
\* the front with a fresh id
append_pending_reorder(queue, entry) ==
    LET hit == {k \in 1..Len(queue) : /\ queue[k].material = entry.material
                                      /\ queue[k].status = "pending"}
    IN  IF hit # {}
        THEN [queue EXCEPT ![FirstOf(hit)] =
                [@ EXCEPT !.reorder_qty = entry.reorder_qty,
                          !.batch_id = IF entry.batch_id # "" THEN entry.batch_id
                                       ELSE @,
                          !.status = "pending"]]
        ELSE <<[id |-> NextId(queue), material |-> entry.material,
                status |-> "pending", reorder_qty |-> entry.reorder_qty,
                batch_id |-> entry.batch_id]>> \o queue

HasItem(queue, item_id) == \E k \in 1..Len(queue) : queue[k].id = item_id

\* next((i for i in items if i["id"] == item_id), None), when there is one
ItemById(queue, item_id) ==
    queue[FirstOf({k \in 1..Len(queue) : queue[k].id = item_id})]

\* update_pending_reorder(item_id, status, extra): the items saved; without
\* an item of that id it raises KeyError and saves nothing
update_pending_reorder(queue, item_id, status) ==
    IF ~HasItem(queue, item_id) THEN queue
    ELSE [queue EXCEPT
            ![FirstOf({k \in 1..Len(queue) : queue[k].id = item_id})].status = status]

\* The batch siblings approved together with an item: the pending queue of
\* its batch, or the item alone when it has no batch
BatchItems(queue, item) ==
    IF item.batch_id # ""
    THEN SelectSeq(queue, LAMBDA i : i.batch_id = item.batch_id /\ i.status = "pending")
    ELSE <<item>>

\* for bi in batch_items: update_pending_reorder(bi["id"], "approved", ...)
RECURSIVE ApproveEach(_, _)
ApproveEach(queue, batch) ==
    IF batch = <<>> THEN queue
    ELSE ApproveEach(update_pending_reorder(queue, Head(batch).id, "approved"),
                     Tail(batch))

\* mark_arrived: phase.ordered_qty and phase.remaining_stock grow by qty
Arrived(phase, qty) ==
    [phase EXCEPT !.ordered_qty = Round4(@ + qty),
                  !.remaining_stock = Round4(@ + qty)]

\* MIN_DAYS_DATA: daily entries a phase needs before a stock-out is predicted
MIN_DAYS_DATA == 2

\* Quantities a daily log may carry, in units of 0.00001: a negative one
\* (the request body is not validated), one below the fourth decimal,
\* a half and a whole order
UsageQtys == {-100000, 4, 100000, 200000}

\* Phase indices a request body may carry, as Python indices
PhaseIndexes == {-1, 0, 1}

\* record_phase: the phase stored for a completed phase; no daily entries
record_phase(ordered_qty, consumed_qty, carry_in) ==
    [ordered_qty |-> ordered_qty, consumed_qty |-> consumed_qty,
     remaining_stock |-> Max2(0, Round4(ordered_qty + carry_in - consumed_qty)),
     daily_usage |-> <<>>]

\* The aggregates of a phase recomputed from its daily entries
Recomputed(phase) ==
    LET total_consumed == SumSeq(phase.daily_usage)
    IN  [phase EXCEPT !.consumed_qty = total_consumed,
                      !.remaining_stock =
                          Max2(0, Round4(phase.ordered_qty - total_consumed))]

\* log_daily_usage without its over-consumption guard
log_unguarded(phase, qty_used) ==
    [ok |-> TRUE,
     phase |-> Recomputed([phase EXCEPT !.daily_usage = Append(@, qty_used)])]

\* log_daily_usage on a phase: ok is FALSE when ValueError is raised
log_daily_usage(phase, qty_used) ==
    LET already_consumed == SumSeq(phase.daily_usage)
        total_after == already_consumed + qty_used
    IN  IF total_after > phase.ordered_qty
        THEN [ok |-> FALSE, phase |-> phase]
        ELSE [ok |-> TRUE,
              phase |-> Recomputed([phase EXCEPT !.daily_usage =
                                        Append(@, qty_used)])]

(***************************************************************************)
(* Actions: optimize_truck_loads                                           *)
(***************************************************************************)
packInputs == <<materials, order_quantities, trucks, rain_expected>>

\* Build item list and sort it by efficiency
PackBuild ==
    /\ pcPack = "call"
    /\ items' = SortItems(BuildItems(order_quantities, materials, rain_expected))
    /\ assignments' = <<>>
    /\ pcPack' = "pack"
    /\ UNCHANGED <<emitVars, siteVars, packInputs, routeVars, cwVars, planVars>>

\* One turn of "for truck in trucks"
PackTruck ==
    /\ pcPack = "pack"
    /\ Len(assignments) < Len(trucks)
    /\ LET truck  == trucks[Len(assignments) + 1]
           packed == PackLoop(items, truck.capacity_kg, 0, <<>>, <<>>)
       IN  /\ items' = packed.rest
           /\ assignments' = Append(assignments, NewAssignment(truck, packed))
    /\ UNCHANGED <<emitVars, siteVars, packInputs, pcPack, routeVars, cwVars, planVars>>

\* return assignments
PackReturn ==
    /\ pcPack = "pack"
    /\ Len(assignments) = Len(trucks)
    /\ pcPack' = "done"
    /\ UNCHANGED <<emitVars, siteVars, packInputs, items, assignments, routeVars, cwVars, planVars>>

(***************************************************************************)
(* Actions: solve_routes, on the assignments it is handed                  *)
(***************************************************************************)
routeInputs == <<depot, sites, vehicle_capacity_kg>>

\* _solve_cvrp_ortools: the import fails, or the solver finds nothing, or
\* it returns one of its solutions; with no active truck it is not called
RoutesSolve ==
    /\ pcRoute = "call"
    /\ LET nv == Len(ActiveIdx(assignments))
       IN  \/ /\ nv = 0
              /\ ortools' = "not_called"
              /\ routes_idx' = <<>>
           \/ /\ nv > 0
              /\ ortools' \in {"missing", "no_solution"}
              /\ routes_idx' = <<>>
           \/ /\ nv > 0
              /\ ortools' = "solution"
              /\ routes_idx' \in SolverSolutions(sites, vehicle_capacity_kg, nv)
    /\ pcRoute' = "solved"
    /\ UNCHANGED <<emitVars, siteVars, routeInputs, routeK, packVars, cwVars, planVars>>

\* if not routes_idx: greedy fallback
RoutesFallback ==
    /\ pcRoute = "solved"
    /\ routes_idx' = IF routes_idx = <<>>
                     THEN FallbackRoutes(depot, sites, Len(ActiveIdx(assignments)))
                     ELSE routes_idx
    /\ routeK' = 1
    /\ pcRoute' = "assign"
    /\ UNCHANGED <<emitVars, siteVars, routeInputs, ortools, packVars, cwVars, planVars>>

\* One turn of "for k, assignment in enumerate(active_assignments)"
RoutesAssign ==
    /\ pcRoute = "assign"
    /\ routeK <= Len(ActiveIdx(assignments))
    /\ routeK <= Len(routes_idx)
    /\ LET i == ActiveIdx(assignments)[routeK]
       IN  assignments' = [assignments EXCEPT
                             ![i] = Routed(depot, sites, @, routes_idx[routeK])]
    /\ routeK' = routeK + 1
    /\ UNCHANGED <<emitVars, siteVars, routeInputs, ortools, routes_idx, pcRoute, materials,
                   order_quantities, trucks, rain_expected, items, pcPack,
                   cwVars, planVars>>

\* Mark idle trucks and return
RoutesMarkIdle ==
    /\ pcRoute = "assign"
    /\ ~(routeK <= Len(ActiveIdx(assignments)) /\ routeK <= Len(routes_idx))
    /\ assignments' = [k \in 1..Len(assignments) |->
                          IF assignments[k].used_capacity_kg = 0
                          THEN MarkedIdle(depot, assignments[k])
                          ELSE assignments[k]]
    /\ pcRoute' = "done"
    /\ UNCHANGED <<emitVars, siteVars, routeInputs, ortools, routes_idx, routeK, materials,
                   order_quantities, trucks, rain_expected, items, pcPack,
                   cwVars, planVars>>

(***************************************************************************)
(* Actions: _clarke_wright                                                 *)
(***************************************************************************)
cwInputs == <<cw_depot, cw_stops, cw_capacity>>

\* Seed routes, savings list, stop_to_route; an empty stop list returns []
CWStart ==
    /\ cwpc = "call"
    /\ IF cw_stops = <<>>
       THEN /\ routes' = <<>>
            /\ savings' = <<>>
            /\ stop_to_route' = <<>>
            /\ cwpc' = "done"
       ELSE /\ routes' = SeedRoutes(cw_depot, cw_stops)
            /\ savings' = SortSavings(UnsortedSavings(cw_depot, cw_stops))
            /\ stop_to_route' = [sid \in {cw_stops[k].id : k \in 1..Len(cw_stops)} |-> sid]
            /\ cwpc' = "merge"
    /\ savIdx' = 1
    /\ cw_log' = <<>>
    /\ UNCHANGED <<emitVars, siteVars, cwInputs, packVars, routeVars, planVars>>

\* One turn of "for sav, si, sj in savings" that does not break
CWIteration ==
    /\ cwpc = "merge"
    /\ savIdx <= Len(savings)
    /\ ~SavingStops(savings[savIdx].sav)
    /\ LET e == savings[savIdx]
           r == MergeBody(cw_depot, cw_stops, cw_capacity, routes, stop_to_route, e)
       IN  /\ routes' = r.routes
           /\ stop_to_route' = r.stop_to_route
           /\ cw_log' = Append(cw_log, [idx |-> savIdx, sav |-> e.sav, si |-> e.si,
                                        sj |-> e.sj, kind |-> r.kind])
           /\ cw_stops' = StopsAfterTurn(cw_stops, r.routes, r.kind)
    /\ savIdx' = savIdx + 1
    /\ UNCHANGED <<emitVars, siteVars, cw_depot, cw_capacity, savings, cwpc, packVars, routeVars,
                   planVars>>

\* The loop ends (break on sav <= 0, or no pair left): return list(routes.values())
CWReturn ==
    /\ cwpc = "merge"
    /\ IF savIdx <= Len(savings) THEN SavingStops(savings[savIdx].sav) ELSE TRUE
    /\ cwpc' = "done"
    /\ UNCHANGED <<emitVars, siteVars, cwInputs, routes, savings, savIdx, stop_to_route, cw_log,
                   packVars, routeVars, planVars>>

(***************************************************************************)
(* Actions: plan_supply                                                    *)
(***************************************************************************)
planInputs == <<dest, requirements, network>>
planHistory == <<calls, prev_picks, prev_shortfalls>>

\* net = load_network()
PlanLoad ==
    /\ pcPlan = "call"
    /\ net' = load_network(network)
    /\ picks' = <<>>
    /\ shortfalls' = <<>>
    /\ reqIdx' = 1
    /\ pcPlan' = "source"
    /\ UNCHANGED <<emitVars, siteVars, planInputs, by_store, by_depot, depot_plans, summary, depotIdx,
                   planHistory, packVars, routeVars, cwVars>>

\* One turn of "for req in requirements"; file is what the network file
\* holds afterwards
PlanSourceStep(file) ==
    /\ pcPlan = "source"
    /\ reqIdx <= Len(requirements)
    /\ LET got == SourceOne(net.stores, dest, requirements[reqIdx], reqIdx)
       IN  /\ picks' = picks \o got.picks
           /\ shortfalls' = shortfalls \o got.shortfalls
    /\ reqIdx' = reqIdx + 1
    /\ network' = file
    /\ UNCHANGED <<emitVars, siteVars, dest, requirements, net, by_store, by_depot, depot_plans,
                   summary, depotIdx, pcPlan, planHistory, packVars, routeVars,
                   cwVars>>

\* Faulty variant of PlanSource: the units picked for the requirement are
\* taken out of the inventories and the network file is saved
Drained(file, r) ==
    IF ~file.exists THEN file
    ELSE [file EXCEPT !.stores =
            [k \in 1..Len(file.stores) |->
                [file.stores[k] EXCEPT !.inventory =
                    [m \in DOMAIN @ |-> IF m = r.material
                                        THEN Max2(0, @[m] - r.qty) ELSE @[m]]]]]

PlanSourceSaving ==
    /\ pcPlan = "source"
    /\ reqIdx <= Len(requirements)
    /\ PlanSourceStep(Drained(network, requirements[reqIdx]))

PlanSource == PlanSourceStep(network)

\* Aggregate picks by store
PlanAggregate ==
    /\ pcPlan = "source"
    /\ reqIdx > Len(requirements)
    /\ by_store' = AggregateByStore(picks, <<>>)
    /\ pcPlan' = "group"
    /\ UNCHANGED <<emitVars, siteVars, planInputs, net, picks, shortfalls, by_depot, depot_plans,
                   summary, reqIdx, depotIdx, planHistory, packVars, routeVars,
                   cwVars>>

\* Assign each store to its nearest depot; min() of an empty depot list
\* raises ValueError
PlanGroup ==
    /\ pcPlan = "group"
    /\ IF by_store # <<>> /\ net.depots = <<>>
       THEN /\ pcPlan' = "raised"
            /\ UNCHANGED by_depot
       ELSE /\ by_depot' = GroupByDepot(net.depots, by_store, <<>>)
            /\ pcPlan' = "depot"
    /\ depotIdx' = 1
    /\ depot_plans' = <<>>
    /\ UNCHANGED <<emitVars, siteVars, planInputs, net, picks, shortfalls, by_store, summary, reqIdx,
                   planHistory, packVars, routeVars, cwVars>>

\* One turn of "for did, payload in by_depot.items()", up to the call of
\* _clarke_wright(d_lat, d_lon, cw_stops, max_cap)
PlanCallCW ==
    /\ pcPlan = "depot"
    /\ depotIdx <= Len(by_depot)
    /\ cwpc \in {"idle", "done"}
    /\ LET payload == by_depot[depotIdx]
       IN  /\ cw_depot' = [lat |-> payload.depot.lat, lon |-> payload.depot.lon]
           /\ cw_stops' = CwStops(payload.stores)
           /\ cw_capacity' = CapacityCeiling(TrucksOf(payload.depot))
    /\ cwpc' = "call"
    /\ pcPlan' = "cw"
    /\ UNCHANGED <<emitVars, siteVars, planInputs, net, picks, shortfalls, by_store, by_depot,
                   depot_plans, summary, reqIdx, depotIdx, planHistory, routes,
                   savings, savIdx, stop_to_route, cw_log, packVars, routeVars>>

\* The rest of the turn: the routes handed to the depot's trucks
PlanAssign ==
    /\ pcPlan = "cw"
    /\ cwpc = "done"
    /\ LET payload == by_depot[depotIdx]
       IN  depot_plans' = Append(depot_plans,
              [depot |-> [id |-> payload.depot.id, lat |-> payload.depot.lat,
                          lon |-> payload.depot.lon],
               assignments |-> AssignTrucks(dest, payload.stores, routes,
                                            TrucksOf(payload.depot))])
    /\ depotIdx' = depotIdx + 1
    /\ pcPlan' = "depot"
    /\ UNCHANGED <<emitVars, siteVars, planInputs, net, picks, shortfalls, by_store, by_depot, summary,
                   reqIdx, planHistory, packVars, routeVars, cwVars>>

\* Summary and return
PlanReturn ==
    /\ pcPlan = "depot"
    /\ depotIdx > Len(by_depot)
    /\ summary' = Summary(depot_plans, by_store, shortfalls)
    /\ pcPlan' = "done"
    /\ UNCHANGED <<emitVars, siteVars, planInputs, net, picks, shortfalls, by_store, by_depot,
                   depot_plans, reqIdx, depotIdx, planHistory, packVars, routeVars,
                   cwVars>>

\* The caller calls plan_supply again with the same destination and
\* requirements; the previous picks and shortfalls are remembered
PlanAgain ==
    /\ pcPlan = "done"
    /\ calls + 1 < MaxCalls
    /\ calls' = calls + 1
    /\ prev_picks' = picks
    /\ prev_shortfalls' = shortfalls
    /\ pcPlan' = "call"
    /\ UNCHANGED <<emitVars, siteVars, planInputs, net, picks, shortfalls, by_store, by_depot,
                   depot_plans, summary, reqIdx, depotIdx, packVars, routeVars,
                   cwVars>>

(***************************************************************************)
(* Initial states.  Each flow draws its inputs from small sets; the        *)
(* variables of the other flows rest.                                      *)
(***************************************************************************)
(***************************************************************************)
(* Actions: the two emissions estimates, applied to the same arguments.    *)
(* -1 stands for "not yet computed".                                       *)
(***************************************************************************)
emitInputs == <<em_distance, em_quantity, em_capacity>>

\* calculate_emissions(distance, quantity, truck_capacity)
CalculateEmissions ==
    /\ em_calc = -1
    /\ em_calc' = calculate_emissions(em_distance, em_quantity, em_capacity)
    /\ UNCHANGED <<emitInputs, em_co2, packVars, routeVars, cwVars, planVars,
                   siteVars>>

\* _co2(distance_km, load_kg, capacity_kg)
Co2Call ==
    /\ em_co2 = -1
    /\ em_co2' = Co2(em_distance, em_quantity, em_capacity)
    /\ UNCHANGED <<emitInputs, em_calc, packVars, routeVars, cwVars, planVars,
                   siteVars>>

(***************************************************************************)
(* Actions: the pending-reorder queue and its request handlers             *)
(***************************************************************************)
\* append_pending_reorder(entry), as the order and reorder handlers call it
QueueAppend ==
    /\ requests < MaxRequests
    /\ \E m \in SiteMaterials, q \in OrderQtys, b \in BatchIds :
          pending_reorders' = append_pending_reorder(pending_reorders,
              [material |-> m, reorder_qty |-> q, batch_id |-> b])
    /\ response' = 200
    /\ requests' = requests + 1
    /\ UNCHANGED <<history, site_configured, stock_added, packVars, routeVars,
                   cwVars, planVars, emitVars>>

\* update_pending_reorder(item_id, status, extra); KeyError is answered 404
QueueUpdate ==
    /\ requests < MaxRequests
    /\ \E item_id \in 1..(MaxRequests + 1), st \in Statuses :
          /\ pending_reorders' = update_pending_reorder(pending_reorders, item_id, st)
          /\ response' = IF HasItem(pending_reorders, item_id) THEN 200 ELSE 404
    /\ requests' = requests + 1
    /\ UNCHANGED <<history, site_configured, stock_added, packVars, routeVars,
                   cwVars, planVars, emitVars>>

\* POST /api/pending-reorders/approve/<item_id>
ApprovePendingReorder ==
    /\ requests < MaxRequests
    /\ \E item_id \in 1..(MaxRequests + 1) :
          IF ~site_configured
          THEN response' = 400 /\ UNCHANGED pending_reorders
          ELSE IF ~HasItem(pending_reorders, item_id)
          THEN response' = 404 /\ UNCHANGED pending_reorders
          ELSE IF ItemById(pending_reorders, item_id).status # "pending"
          THEN response' = 409 /\ UNCHANGED pending_reorders
          ELSE /\ pending_reorders' =
                     ApproveEach(pending_reorders,
                         BatchItems(pending_reorders,
                                    ItemById(pending_reorders, item_id)))
               /\ response' = 200
    /\ requests' = requests + 1
    /\ UNCHANGED <<history, site_configured, stock_added, packVars, routeVars,
                   cwVars, planVars, emitVars>>

\* POST /api/pending-reorders/reject/<item_id>
RejectPendingReorder ==
    /\ requests < MaxRequests
    /\ \E item_id \in 1..(MaxRequests + 1) :
          /\ pending_reorders' =
                update_pending_reorder(pending_reorders, item_id, "rejected")
          /\ response' = IF HasItem(pending_reorders, item_id) THEN 200 ELSE 404
    /\ requests' = requests + 1
    /\ UNCHANGED <<history, site_configured, stock_added, packVars, routeVars,
                   cwVars, planVars, emitVars>>

\* POST /api/pending-reorders/arrived/<item_id>
MarkArrived ==
    /\ requests < MaxRequests
    /\ \E item_id \in 1..(MaxRequests + 1) :
          IF ~HasItem(pending_reorders, item_id)
          THEN response' = 404 /\ UNCHANGED <<pending_reorders, history, stock_added>>
          ELSE IF ItemById(pending_reorders, item_id).status # "approved"
          THEN response' = 409 /\ UNCHANGED <<pending_reorders, history, stock_added>>
          ELSE LET item == ItemById(pending_reorders, item_id)
                   hist == history[item.material]
               IN  IF hist = <<>>
                   THEN /\ response' = 404
                        /\ UNCHANGED <<pending_reorders, history, stock_added>>
                   ELSE /\ history' = [history EXCEPT ![item.material] =
                              [hist EXCEPT ![Len(hist)] = Arrived(@, item.reorder_qty)]]
                        /\ pending_reorders' =
                              update_pending_reorder(pending_reorders, item_id, "arrived")
                        /\ stock_added' = Append(stock_added, item_id)
                        /\ response' = 200
    /\ requests' = requests + 1
    /\ UNCHANGED <<site_configured, packVars, routeVars, cwVars, planVars, emitVars>>

\* POST log-daily-usage: 404 for an unknown material, 400 when the phase
\* index is out of range or the log is refused; after a stored log the
\* auto-reorder check may queue an order once the phase has enough entries
PostLogDailyUsage ==
    /\ requests < MaxRequests
    /\ \E name \in SiteMaterials \cup {"Gravel"}, qty_used \in UsageQtys :
          IF name \notin SiteMaterials
          THEN response' = 404 /\ UNCHANGED <<history, pending_reorders>>
          ELSE \E phase_index \in PhaseIndexes \cup {Len(history[name]) - 1} :
                  IF phase_index < 0 \/ phase_index >= Len(history[name])
                  THEN response' = 400 /\ UNCHANGED <<history, pending_reorders>>
                  ELSE LET logged == log_daily_usage(history[name][phase_index + 1],
                                                     qty_used)
                       IN  IF ~logged.ok
                           THEN /\ response' = 400
                                /\ UNCHANGED <<history, pending_reorders>>
                           ELSE /\ history' = [history EXCEPT
                                      ![name][phase_index + 1] = logged.phase]
                                /\ response' = 200
                                /\ \/ UNCHANGED pending_reorders
                                   \/ /\ Len(logged.phase.daily_usage) >= MIN_DAYS_DATA
                                      /\ \E q \in OrderQtys :
                                            pending_reorders' =
                                                append_pending_reorder(pending_reorders,
                                                    [material |-> name, reorder_qty |-> q,
                                                     batch_id |-> ""])
    /\ requests' = requests + 1
    /\ UNCHANGED <<site_configured, stock_added, packVars, routeVars, cwVars,
                   planVars, emitVars>>

\* No emissions estimate is being computed
EmitIdle ==
    /\ em_distance = 0 /\ em_quantity = 0 /\ em_capacity = 0
    /\ em_calc = -1 /\ em_co2 = -1

\* No request has reached the site server
SiteIdle ==
    /\ pending_reorders = <<>>
    /\ history = <<>>
    /\ site_configured = FALSE
    /\ response = 0
    /\ stock_added = <<>>
    /\ requests = 0

PackIdle ==
    /\ materials = <<>>
    /\ order_quantities = <<>>
    /\ trucks = <<>>
    /\ rain_expected = FALSE
    /\ items = <<>>
    /\ assignments = <<>>
    /\ pcPack = "idle"

RoutesIdle ==
    /\ depot = [name |-> "Depot", lat |-> 0, lon |-> 0]
    /\ sites = <<>>
    /\ vehicle_capacity_kg = 0
    /\ ortools = "not_called"
    /\ routes_idx = <<>>
    /\ routeK = 1
    /\ pcRoute = "idle"

CWLocalsIdle ==
    /\ routes = <<>>
    /\ savings = <<>>
    /\ savIdx = 1
    /\ stop_to_route = <<>>
    /\ cw_log = <<>>

CWIdle ==
    /\ cw_depot = [lat |-> 0, lon |-> 0]
    /\ cw_stops = <<>>
    /\ cw_capacity = 0
    /\ CWLocalsIdle
    /\ cwpc = "idle"

PlanLocalsIdle ==
    /\ net = [depots |-> <<>>, stores |-> <<>>]
    /\ picks = <<>>
    /\ shortfalls = <<>>
    /\ by_store = <<>>
    /\ by_depot = <<>>
    /\ depot_plans = <<>>
    /\ summary = <<>>
    /\ reqIdx = 1
    /\ depotIdx = 1
    /\ calls = 0
    /\ prev_picks = <<>>
    /\ prev_shortfalls = <<>>

PlanIdle ==
    /\ dest = [name |-> "Site", lat |-> 0, lon |-> 0]
    /\ requirements = <<>>
    /\ network = [exists |-> FALSE, depots |-> <<>>, stores |-> <<>>]
    /\ PlanLocalsIdle
    /\ pcPlan = "idle"

\* Inputs of optimize_truck_loads.  Weights in half kg, quantities in half
\* units (0.5, 1.0 and 2.5 units), capacities in kg.
MaterialMaps ==
    {[n \in MaterialNames |->
        IF n = "Cement" THEN [weight_per_unit |-> wc, priority |-> 6]
                        ELSE [weight_per_unit |-> ws, priority |-> ps]] :
        wc \in {2, 3}, ws \in {0, 1, 4}, ps \in {2, 8}}

OrderEntries == [name : OrderNames, qty2 : {1, 2, 5}]

Orders ==
    {o \in SeqsOf(OrderEntries, 1, 2) :
        \A i, j \in 1..Len(o) : i # j => o[i].name # o[j].name}

TruckIds == <<"T1", "T2", "T3", "T4">>

Fleets ==
    UNION {{[k \in 1..n |-> [truck_id |-> TruckIds[k], capacity_kg |-> c[k]]] :
               c \in [1..n -> {1, 3}]} : n \in 1..MaxTrucks}

InitPack ==
    /\ materials \in MaterialMaps
    /\ order_quantities \in Orders
    /\ trucks \in Fleets
    /\ rain_expected \in BOOLEAN
    /\ items = <<>>
    /\ assignments = <<>>
    /\ pcPack = "call"
    /\ RoutesIdle /\ CWIdle /\ PlanIdle /\ EmitIdle /\ SiteIdle

\* Inputs of solve_routes: the assignments are what optimize_truck_loads
\* can return (used_capacity_kg <= capacity_kg, no route yet)
SiteNames == <<"A", "B", "C", "D">>

SiteLists ==
    UNION {{[k \in 1..n |-> [name |-> SiteNames[k], lat |-> pl[k][1],
                             lon |-> pl[k][2], demand |-> dm[k]]] :
               pl \in [1..n -> {<<0, 1>>, <<0, 2>>, <<1, 1>>}],
               dm \in [1..n -> {1, 2}]} : n \in 1..MaxSites}

LoadedFleets ==
    UNION {{[k \in 1..n |->
               [truck_id |-> TruckIds[k], capacity_kg |-> cu[k][1],
                materials_loaded |-> <<>>, used_capacity_kg |-> cu[k][2],
                route |-> <<>>, distance_km |-> 0, co2_kg |-> 0]] :
               cu \in [1..n -> {<<1, 0>>, <<1, 1>>, <<3, 1>>, <<3, 3>>}]} :
           n \in 1..MaxTrucks}

InitRoutes ==
    /\ depot = [name |-> "Depot", lat |-> 0, lon |-> 0]
    /\ sites \in SiteLists
    /\ assignments \in LoadedFleets
    /\ vehicle_capacity_kg \in {1, 3}
    /\ ortools = "not_called"
    /\ routes_idx = <<>>
    /\ routeK = 1
    /\ pcRoute = "call"
    /\ materials = <<>> /\ order_quantities = <<>> /\ trucks = <<>>
    /\ rain_expected = FALSE /\ items = <<>> /\ pcPack = "done"
    /\ CWIdle /\ PlanIdle /\ EmitIdle /\ SiteIdle

\* Inputs of _clarke_wright.  Demands and the capacity in grams.
StoreIds == <<"S1", "S2", "S3", "S4">>

StopLists ==
    UNION {{[k \in 1..n |-> [id |-> StoreIds[k], lat |-> pl[k][1],
                             lon |-> pl[k][2], demand_kg |-> dm[k]]] :
               pl \in [1..n -> {<<0, 0>>, <<0, 1>>, <<0, 2>>, <<1, 1>>}],
               dm \in [1..n -> {1000, 2000}]} : n \in 0..MaxStops}

InitCW ==
    /\ cw_depot \in {[lat |-> 0, lon |-> 0], [lat |-> 0, lon |-> 1]}
    /\ cw_stops \in StopLists
    /\ cw_capacity \in {1000, 3000}
    /\ CWLocalsIdle
    /\ cwpc = "call"
    /\ PackIdle /\ RoutesIdle /\ PlanIdle /\ EmitIdle /\ SiteIdle

\* Inputs of plan_supply.  Store k and depot k lie at fixed places; a unit
\* of Cement weighs 1.006 kg and a unit of Sand 1 kg.
StorePlaces == <<(<<0, 1>>), (<<0, 2>>), (<<1, 0>>), (<<1, 1>>)>>
DepotPlaces == <<(<<0, 0>>), (<<1, 1>>), (<<0, 2>>)>>
DepotIds    == <<"D1", "D2", "D3">>

Inventories ==
    {[Cement |-> 2, Sand |-> 0], [Cement |-> 1, Sand |-> 1], [Sand |-> 3]}

StoreLists ==
    UNION {{[k \in 1..n |-> [id |-> StoreIds[k], lat |-> StorePlaces[k][1],
                             lon |-> StorePlaces[k][2], inventory |-> inv[k]]] :
               inv \in [1..n -> Inventories]} : n \in 0..MaxStores}

TruckLists ==
    {<<>>, <<[id |-> "T1", cap |-> 1]>>,
     <<[id |-> "T1", cap |-> 1], [id |-> "T2", cap |-> 3]>>}

DepotLists ==
    UNION {{[k \in 1..n |-> [id |-> DepotIds[k], lat |-> DepotPlaces[k][1],
                             lon |-> DepotPlaces[k][2],
                             trucks |-> IF k = 1 THEN t ELSE <<[id |-> "T9", cap |-> 2]>>]] :
               t \in TruckLists} : n \in 0..MaxDepots}

Requirement(mat, qty) ==
    [material |-> mat, qty |-> qty,
     unit_weight |-> IF mat = "Cement" THEN 1006 ELSE 1000]

RequirementChoices ==
    {Requirement("Cement", 1), Requirement("Cement", 3), Requirement("Sand", 2)}

InitPlan ==
    /\ dest \in {[name |-> "Site", lat |-> 0, lon |-> 0],
                 [name |-> "Site", lat |-> 1, lon |-> 1]}
    /\ requirements \in SeqsOf(RequirementChoices, 1, MaxReqs)
    /\ network \in {[exists |-> FALSE, depots |-> <<>>, stores |-> <<>>]} \cup
                   {[exists |-> TRUE, depots |-> d, stores |-> st] :
                       d \in DepotLists, st \in StoreLists}
    /\ PlanLocalsIdle
    /\ pcPlan = "call"
    /\ PackIdle /\ RoutesIdle /\ CWIdle /\ EmitIdle /\ SiteIdle

(***************************************************************************)
(* Specifications                                                          *)
(***************************************************************************)
\* Arguments of the emissions estimates: distance in metres, load and
\* capacity in kg
EmitDistances  == {0, 1, 40, 1250, 100000}
EmitLoads      == {0, 1, 50, 500}
EmitCapacities == {0, 500, 16000}

InitEmit ==
    /\ em_distance \in EmitDistances
    /\ em_quantity \in EmitLoads
    /\ em_capacity \in EmitCapacities
    /\ em_calc = -1 /\ em_co2 = -1
    /\ PackIdle /\ RoutesIdle /\ CWIdle /\ PlanIdle /\ SiteIdle

\* Inputs around the documented scenarios of optimize_truck_loads: one
\* truck of 500 or 1000 kg and one material of 50 kg per unit, of any
\* priority 1..10, ordered in 5, 15 or 25 units
ScenarioMaterials == {"Cement", "Steel"}

InitPackScenario ==
    /\ \E nm \in ScenarioMaterials, p \in 1..10, q \in {5, 15, 25} :
          /\ materials = [n \in {nm} |-> [weight_per_unit |-> 100, priority |-> p]]
          /\ order_quantities = <<[name |-> nm, qty2 |-> 2 * q]>>
    /\ trucks \in {<<[truck_id |-> "T1", capacity_kg |-> c]>> : c \in {500, 1000}}
    /\ rain_expected \in BOOLEAN
    /\ items = <<>>
    /\ assignments = <<>>
    /\ pcPack = "call"
    /\ RoutesIdle /\ CWIdle /\ PlanIdle /\ EmitIdle /\ SiteIdle

\* Inputs around the documented shortfall scenario of plan_supply: one
\* requirement of Sand against two stores and a depot without trucks, the
\* destination nearer to the first store or at the second.
\* Unit weights 1 kg, 1.006 kg and 1 g; 1000 units of 1 kg against 400 and
\* 200 units in stock is Scenario C.
ScenarioRequirements ==
    {[material |-> "Sand", qty |-> q[1], unit_weight |-> q[2]] :
        q \in {<<1000, 1000>>, <<600, 1000>>, <<1, 1000>>, <<601, 1>>,
               <<600, 1>>, <<2, 1006>>, <<1, 1006>>}}

ScenarioInventories ==
    {[Sand |-> n] : n \in {0, 1, 200, 400}} \cup {[Cement |-> 5]}

InitPlanScenario ==
    /\ dest \in {[name |-> "Site", lat |-> 0, lon |-> 0],
                 [name |-> "Site", lat |-> 0, lon |-> 2]}
    /\ requirements \in {<<r>> : r \in ScenarioRequirements}
    /\ \E i1, i2 \in ScenarioInventories :
          network =
            [exists |-> TRUE,
             depots |-> <<[id |-> "D1", lat |-> 0, lon |-> 0, trucks |-> <<>>]>>,
             stores |-> <<[id |-> "S1", lat |-> 0, lon |-> 1, inventory |-> i1],
                          [id |-> "S2", lat |-> 0, lon |-> 2, inventory |-> i2]>>]
    /\ PlanLocalsIdle
    /\ pcPlan = "call"
    /\ PackIdle /\ RoutesIdle /\ CWIdle /\ EmitIdle /\ SiteIdle

\* Four stops of 1000 kg each handed to _clarke_wright, so that a route of
\* three stops, with an interior stop, can meet a fourth stop
ChainStopLists ==
    {[k \in 1..4 |-> [id |-> StoreIds[k], lat |-> pl[k][1], lon |-> pl[k][2],
                      demand_kg |-> 1000]] :
        pl \in [1..4 -> {<<0, 1>>, <<0, 2>>, <<1, 0>>, <<1, 1>>}]}

InitCWChain ==
    /\ cw_depot \in {[lat |-> 0, lon |-> 0], [lat |-> 0, lon |-> 1]}
    /\ cw_stops \in ChainStopLists
    /\ cw_capacity \in {2000, 4000}
    /\ CWLocalsIdle
    /\ cwpc = "call"
    /\ PackIdle /\ RoutesIdle /\ PlanIdle /\ EmitIdle /\ SiteIdle

\* Three stores holding Sand around depot D1, whose fleet has no, one, two
\* or three trucks; with full trucks the routes outnumber the trucks
FleetTruckLists ==
    {<<>>,
     <<[id |-> "T1", cap |-> 3]>>,
     <<[id |-> "T1", cap |-> 1], [id |-> "T2", cap |-> 3]>>,
     <<[id |-> "T1", cap |-> 3], [id |-> "T2", cap |-> 3], [id |-> "T3", cap |-> 1]>>}

FleetDepotLists ==
    {<<[id |-> "D1", lat |-> 0, lon |-> 0, trucks |-> t]>> : t \in FleetTruckLists}
    \cup
    {<<[id |-> "D1", lat |-> 0, lon |-> 0, trucks |-> t],
       [id |-> "D2", lat |-> 1, lon |-> 1,
        trucks |-> <<[id |-> "T8", cap |-> 3], [id |-> "T9", cap |-> 3]>>]>> :
        t \in FleetTruckLists}

InitPlanFleet ==
    /\ dest = [name |-> "Site", lat |-> 1, lon |-> 1]
    /\ requirements \in {<<Requirement("Sand", q)>> : q \in {3, 9}}
    /\ \E d \in FleetDepotLists, inv \in [1..3 -> {0, 1, 3}] :
          network =
            [exists |-> TRUE, depots |-> d,
             stores |-> [k \in 1..3 |->
                           [id |-> StoreIds[k], lat |-> StorePlaces[k][1],
                            lon |-> StorePlaces[k][2],
                            inventory |-> [Sand |-> inv[k]]]]]
    /\ PlanLocalsIdle
    /\ pcPlan = "call"
    /\ PackIdle /\ RoutesIdle /\ CWIdle /\ EmitIdle /\ SiteIdle

\* Three sites and fleets of one to three trucks, loaded or empty: three
\* sites on two active trucks split into chunks of two and one
ThreeSiteLists ==
    {[k \in 1..3 |-> [name |-> SiteNames[k], lat |-> pl[k][1], lon |-> pl[k][2],
                      demand |-> 1]] :
        pl \in [1..3 -> {<<0, 1>>, <<0, 2>>, <<1, 1>>}]}

ThreeTruckFleets ==
    UNION {{[k \in 1..n |->
               [truck_id |-> TruckIds[k], capacity_kg |-> 3,
                materials_loaded |-> <<>>, used_capacity_kg |-> u[k],
                route |-> <<>>, distance_km |-> 0, co2_kg |-> 0]] :
               u \in [1..n -> {0, 3}]} : n \in 1..3}

InitRoutesThree ==
    /\ depot = [name |-> "Depot", lat |-> 0, lon |-> 0]
    /\ sites \in ThreeSiteLists
    /\ assignments \in ThreeTruckFleets
    /\ vehicle_capacity_kg = 3
    /\ ortools = "not_called"
    /\ routes_idx = <<>>
    /\ routeK = 1
    /\ pcRoute = "call"
    /\ materials = <<>> /\ order_quantities = <<>> /\ trucks = <<>>
    /\ rain_expected = FALSE /\ items = <<>> /\ pcPack = "done"
    /\ CWIdle /\ PlanIdle /\ EmitIdle /\ SiteIdle

\* The site server of one project: an empty queue; each material has no
\* phase yet or one freshly initialised phase
InitializedPhase ==
    [ordered_qty |-> 0, consumed_qty |-> 0, remaining_stock |-> 0,
     daily_usage |-> <<>>]

InitQueue ==
    /\ pending_reorders = <<>>
    /\ history \in [SiteMaterials -> {<<>>, <<InitializedPhase>>}]
    /\ site_configured \in BOOLEAN
    /\ response = 0
    /\ stock_added = <<>>
    /\ requests = 0
    /\ PackIdle /\ RoutesIdle /\ CWIdle /\ PlanIdle /\ EmitIdle

NextPack   == PackBuild \/ PackTruck \/ PackReturn
NextRoutes == RoutesSolve \/ RoutesFallback \/ RoutesAssign \/ RoutesMarkIdle
\* Phases a site can hold before a daily log: an initialized phase with or
\* without an arrived order, and a phase stored by record_phase
UsagePhases ==
    {Arrived(InitializedPhase, a) : a \in {0} \cup OrderQtys}
    \cup {record_phase(200000, c, ci) : c \in {0, 100000}, ci \in {0, 100000}}

InitUsage ==
    /\ pending_reorders = <<>>
    /\ \E p \in UsagePhases :
          history \in {[m \in SiteMaterials |-> IF m = "Cement" THEN h ELSE <<>>] :
                          h \in {<<p>>, <<record_phase(200000, 100000, 0), p>>}}
    /\ site_configured \in BOOLEAN
    /\ response = 0
    /\ stock_added = <<>>
    /\ requests = 0
    /\ PackIdle /\ RoutesIdle /\ CWIdle /\ PlanIdle /\ EmitIdle

NextCW     == CWStart \/ CWIteration \/ CWReturn
NextEmit   == CalculateEmissions \/ Co2Call
NextPlan   == PlanLoad \/ PlanSource \/ PlanAggregate \/ PlanGroup
              \/ PlanCallCW \/ PlanAssign \/ PlanReturn \/ NextCW

NextQueue    == QueueAppend \/ QueueUpdate
NextReorders == QueueAppend \/ ApprovePendingReorder \/ RejectPendingReorder
                \/ MarkArrived
NextUsage    == PostLogDailyUsage

SpecPack      == InitPack /\ [][NextPack]_vars
SpecPackScenario == InitPackScenario /\ [][NextPack]_vars
SpecRoutes    == InitRoutes /\ [][NextRoutes]_vars
SpecRoutesThree == InitRoutesThree /\ [][NextRoutes]_vars
SpecCW        == InitCW /\ [][NextCW]_vars
SpecCWChain   == InitCWChain /\ [][NextCW]_vars
SpecPlan      == InitPlan /\ [][NextPlan]_vars
SpecPlanTwice == InitPlan /\ [][NextPlan \/ PlanAgain]_vars
SpecPlanScenario == InitPlanScenario /\ [][NextPlan]_vars
SpecPlanFleet == InitPlanFleet /\ [][NextPlan]_vars
SpecEmit      == InitEmit /\ [][NextEmit]_vars
SpecQueue     == InitQueue /\ [][NextQueue]_vars
SpecReorders  == InitQueue /\ [][NextReorders]_vars
SpecUsage     == InitUsage /\ [][NextUsage]_vars

Init == InitPack \/ InitCW \/ InitPlan
Next == NextPack \/ NextPlan
Spec == Init /\ [][Next]_vars

(***************************************************************************)
(* Properties                                                              *)
(***************************************************************************)
\* Weight (half kg) of what an assignment lists as loaded
LoadedWeight(a) ==
    SumSeq([k \in 1..Len(a.materials_loaded) |->
               materials[a.materials_loaded[k]].weight_per_unit])

\* C1: every TruckAssignment built by optimize_truck_loads has
\* used_capacity_kg <= capacity_kg, and the weight of its materials_loaded
\* is within the capacity: the greedy packing never overfills a truck.
C1_NeverOverfilled ==
    \A k \in 1..Len(assignments) :
        /\ assignments[k].used_capacity_kg <= assignments[k].capacity_kg
        /\ pcPack \in {"pack", "done"} =>
              LoadedWeight(assignments[k]) <= 2 * assignments[k].capacity_kg

\* A truck is filled to the last kg while items are left for the next one
C1_Witness ==
    /\ pcPack = "done"
    /\ items # <<>>
    /\ \E k \in 1..Len(assignments) :
          /\ assignments[k].materials_loaded # <<>>
          /\ LoadedWeight(assignments[k]) = 2 * assignments[k].capacity_kg

\* C2: every route returned by _clarke_wright has load_kg <= the capacity
\* ceiling passed to the solver, seed routes that were never merged
\* included.
C2_RouteLoadWithinCeiling ==
    cwpc = "done" =>
        \A k \in 1..Len(routes) : routes[k].load_kg <= cw_capacity

\* C3: in every plan of plan_supply each truck assignment's load_kg is at
\* most the capacity_kg of the truck it names.
C3_LoadWithinTruckCapacity ==
    \A d \in 1..Len(depot_plans) :
        \A k \in 1..Len(depot_plans[d].assignments) :
            depot_plans[d].assignments[k].load_kg
                <= depot_plans[d].assignments[k].capacity_kg

PlanMaterials == {requirements[k].material : k \in 1..Len(requirements)}

PickedKg(m) ==
    SumSeq([k \in 1..Len(picks) |->
               IF picks[k].material = m THEN picks[k].weight_kg ELSE 0])

ShortKg(m) ==
    SumSeq([k \in 1..Len(shortfalls) |->
               IF shortfalls[k].material = m THEN shortfalls[k].shortfall_kg ELSE 0])

NeededOf(m) ==
    SumSeq([k \in 1..Len(requirements) |->
               IF requirements[k].material = m THEN NeededKg(requirements[k]) ELSE 0])

\* Number of rounded figures (picks and shortfalls) recorded for a material
RoundedTerms(m) ==
    Cardinality({k \in 1..Len(picks) : picks[k].material = m})
    + Cardinality({k \in 1..Len(shortfalls) : shortfalls[k].material = m})

RequirementsOf(m) ==
    Cardinality({k \in 1..Len(requirements) : requirements[k].material = m})

Abs(x) == IF x >= 0 THEN x ELSE -x

SourcingOver ==
    pcPlan \in {"source", "group", "depot", "cw", "done", "raised"}
    /\ reqIdx > Len(requirements)

\* C4: once the requirements are sourced, for every material the picked
\* weight plus the recorded shortfall equals the needed weight
\* qty x unit_weight, within the rounding of the recorded figures (0.005 kg
\* each) and the shortfall threshold (0.001 kg per requirement).
C4_PickedPlusShortfallIsNeeded ==
    SourcingOver =>
        \A m \in PlanMaterials :
            Abs(PickedKg(m) + ShortKg(m) - NeededOf(m))
                <= 5 * RoundedTerms(m) + ShortfallEps * RequirementsOf(m)

\* A material is partly picked and partly short, and the recorded figures
\* do not add up exactly
C4_Witness ==
    /\ pcPlan = "done"
    /\ \E m \in PlanMaterials :
          /\ PickedKg(m) > 0
          /\ ShortKg(m) > 0
          /\ PickedKg(m) + ShortKg(m) # NeededOf(m)

MergesLogged == {k \in 1..Len(cw_log) : cw_log[k].kind = "merge"}

\* C5: the merge loop takes the pairs in descending order of saving, every
\* pair it handles (so every pair it merges) has saving > 0, routes only
\* disappear through those merges, and when it returns every pair it did
\* not handle comes after the first pair with saving <= 0.
C5_MergesNeedPositiveSaving ==
    /\ \A k \in 1..Len(cw_log) :
          /\ cw_log[k].idx = k
          /\ cw_log[k].sav = savings[k].sav
          /\ cw_log[k].sav > 0
          /\ cw_log[k].sav
                = Saving(cw_depot, StopById(cw_stops, cw_log[k].si),
                                   StopById(cw_stops, cw_log[k].sj))
    /\ \A k \in 1..(Len(savings) - 1) : savings[k].sav >= savings[k + 1].sav
    /\ cwpc \in {"merge", "done"} =>
          /\ Len(cw_log) = savIdx - 1
          /\ Len(routes) = Len(cw_stops) - Cardinality(MergesLogged)
    /\ (cwpc = "done" /\ savIdx <= Len(savings)) =>
          \A k \in savIdx..Len(savings) : savings[k].sav <= 0

\* The loop merged a pair and then stopped at a pair that saves nothing
C5_Witness ==
    /\ cwpc = "done"
    /\ MergesLogged # {}
    /\ savIdx <= Len(savings)

\* C6: plan_supply never raises for data-sufficiency reasons.
C6_NeverRaises == pcPlan # "raised"

\* The stock (grams) the store of a pick holds of the picked material
StoreStock(p) ==
    LET st == CHOOSE x \in SeqToSet(net.stores) : x.id = p.store_id
    IN  AvailUnits(st, p.material) * requirements[p.req].unit_weight

\* C7 as first stated: the weight_kg recorded in every pick is no larger
\* than the store's inventory of the material (units x unit_weight).
C7_RecordedWeightWithinStock ==
    \A k \in 1..Len(picks) : picks[k].weight_kg <= StoreStock(picks[k])

\* C7: every pick draws from its store no more than the store's inventory
\* of the material; the weight_kg it records is that amount rounded to two
\* decimals, hence at most the inventory rounded to two decimals.
C7_DrawWithinStock ==
    \A k \in 1..Len(picks) :
        /\ picks[k].take_kg <= StoreStock(picks[k])
        /\ picks[k].weight_kg = Round2(picks[k].take_kg)
        /\ picks[k].weight_kg <= Round2(StoreStock(picks[k]))

\* One store is drawn for all it holds, which the record rounds up, and
\* another for only a part
C7_Witness ==
    /\ pcPlan = "done"
    /\ \E k \in 1..Len(picks) :
          /\ picks[k].take_kg = StoreStock(picks[k])
          /\ picks[k].weight_kg > StoreStock(picks[k])
    /\ \E k \in 1..Len(picks) :
          picks[k].take_kg > 0 /\ picks[k].take_kg < StoreStock(picks[k])

FellBack == ortools \in {"missing", "no_solution"}

\* C10: when the CVRP solver is missing or finds nothing, solve_routes
\* returns with the routes of the greedy fallback, and every truck with
\* used_capacity_kg > 0 has a route that starts at the depot, with its
\* distance and CO2: zero for a truck that stays at the depot, the rounded
\* length of its route and the rounded emissions of that length otherwise.
C10_FallbackRoutesEveryActiveTruck ==
    (pcRoute = "done" /\ FellBack) =>
        LET act == ActiveIdx(assignments)
        IN  /\ Len(routes_idx) = Len(act)
            /\ \A k \in 1..Len(act) :
                  LET a == assignments[act[k]]
                  IN  /\ a.route # <<>>
                      /\ a.route[1] = depot.name
                      /\ a.route[Len(a.route)] = depot.name
                      /\ IF Len(a.route) = 1
                         THEN a.distance_km = 0 /\ a.co2_kg = 0
                         ELSE /\ Len(a.route) = Len(routes_idx[k])
                              /\ a.distance_km
                                    = Round2(RouteKm(depot, sites, routes_idx[k]))
                              /\ a.co2_kg
                                    = RoundHalfEven(
                                        calculate_emissions(
                                            RouteKm(depot, sites, routes_idx[k]),
                                            a.used_capacity_kg, a.capacity_kg),
                                        100)

\* After a fallback one active truck drives a route and another, left
\* without sites, stays at the depot
C10_Witness ==
    /\ pcRoute = "done"
    /\ FellBack
    /\ \E i, j \in 1..Len(assignments) :
          /\ assignments[i].used_capacity_kg > 0
          /\ assignments[j].used_capacity_kg > 0
          /\ Len(assignments[i].route) > 1
          /\ assignments[j].route = <<depot.name>>

\* C11: after solve_routes every truck with used_capacity_kg = 0 has
\* route = [depot name], distance_km = 0 and co2_kg = 0, and the vehicles
\* of the routing are the trucks with used_capacity_kg > 0: one route per
\* such truck, and no routing at all when there is none.
C11_IdleTrucksStayAtDepot ==
    pcRoute = "done" =>
        /\ \A k \in 1..Len(assignments) :
              assignments[k].used_capacity_kg = 0 =>
                  /\ assignments[k].route = <<depot.name>>
                  /\ assignments[k].distance_km = 0
                  /\ assignments[k].co2_kg = 0
        /\ Len(routes_idx) = Len(ActiveIdx(assignments))
        /\ (ortools = "not_called") <=> (ActiveIdx(assignments) = <<>>)

\* An idle truck sits next to a truck that drives a route
C11_Witness ==
    /\ pcRoute = "done"
    /\ \E i, j \in 1..Len(assignments) :
          /\ assignments[i].used_capacity_kg = 0
          /\ assignments[i].route = <<depot.name>>
          /\ assignments[j].used_capacity_kg > 0
          /\ Len(assignments[j].route) > 1

\* The sites of the k-th block of the input site list
ChunkSites(k) ==
    LET cs == ChunkSize(Len(sites), Len(ActiveIdx(assignments)))
    IN  {i \in 1..Len(sites) : (k - 1) * cs < i /\ i <= k * cs}

\* Site r[p] is the nearest to r[p - 1] of the sites not yet visited, and
\* of the equally near ones the earliest of the input list
NearestFirst(r, p) ==
    \A q \in (p + 1)..(Len(r) - 1) :
        \/ Dist(depot, sites, r[p - 1], r[p]) < Dist(depot, sites, r[p - 1], r[q])
        \/ /\ Dist(depot, sites, r[p - 1], r[p]) = Dist(depot, sites, r[p - 1], r[q])
           /\ r[p] < r[q]

\* C12: the fallback routing is determined by its inputs: the k-th active
\* truck visits exactly the k-th block of the input site list, each site
\* once, always moving to the nearest site not yet visited, and of two
\* equally near sites to the one earlier in the input list.
C12_FallbackIsDetermined ==
    (pcRoute \in {"assign", "done"} /\ FellBack) =>
        /\ Len(routes_idx) = Len(ActiveIdx(assignments))
        /\ \A k \in 1..Len(routes_idx) :
              LET r == routes_idx[k]
              IN  /\ r[1] = 0 /\ r[Len(r)] = 0
                  /\ {r[p] : p \in 2..(Len(r) - 1)} = ChunkSites(k)
                  /\ Len(r) = Cardinality(ChunkSites(k)) + 2
                  /\ \A p \in 2..(Len(r) - 1) : NearestFirst(r, p)

\* The fallback visited two sites that were equally near the depot
C12_Witness ==
    /\ pcRoute = "done"
    /\ FellBack
    /\ \E k \in 1..Len(routes_idx) :
          /\ Len(routes_idx[k]) = 4
          /\ Dist(depot, sites, 0, routes_idx[k][2])
                = Dist(depot, sites, 0, routes_idx[k][3])

\* distance x 0.12 x (1 / max(0.01, load / capacity)) as the fraction
\* EmitNum / EmitDen of 1e-4 kg (distance in metres), the factor reduced
EmitClamped == 100 * em_quantity < em_capacity
EmitRawNum  == 12 * (IF EmitClamped THEN 100 ELSE em_capacity)
EmitRawDen  == 10 * (IF EmitClamped THEN 1 ELSE em_quantity)
EmitNum     == em_distance * (EmitRawNum \div Gcd(EmitRawNum, EmitRawDen))
EmitDen     == EmitRawDen \div Gcd(EmitRawNum, EmitRawDen)
EmitZero    == em_distance = 0 \/ em_capacity = 0

\* C13 as first stated: calculate_emissions and _co2 both return 0 for
\* distance 0 or capacity 0 and otherwise exactly
\* distance x 0.12 x (1 / max(0.01, load / capacity)).
C13_EstimatesAreExact ==
    /\ em_calc # -1 =>
          IF EmitZero THEN em_calc = 0 ELSE em_calc * EmitDen = EmitNum
    /\ em_co2 # -1 =>
          IF EmitZero THEN em_co2 = 0 ELSE 100 * em_co2 * EmitDen = EmitNum

\* C13: both estimates are 0 for distance 0 or capacity 0; otherwise
\* calculate_emissions returns distance x 0.12 x (1 / max(0.01, load /
\* capacity)) rounded to 4 decimals and _co2 the same value rounded to 2
\* decimals, so the two differ by at most 0.005 kg.  A full truck gives
\* distance x 0.12 and a truck loaded to a tenth distance x 0.12 x 10.
C13_EstimatesAreRounded ==
    /\ em_calc # -1 =>
          IF EmitZero THEN em_calc = 0
          ELSE /\ 2 * Abs(em_calc * EmitDen - EmitNum) <= EmitDen
               /\ em_quantity = em_capacity =>
                     2 * Abs(10 * em_calc - 12 * em_distance) <= 10
               /\ 10 * em_quantity = em_capacity =>
                     em_calc = 12 * em_distance
    /\ em_co2 # -1 =>
          IF EmitZero THEN em_co2 = 0
          ELSE 2 * Abs(100 * em_co2 * EmitDen - EmitNum) <= 100 * EmitDen
    /\ (em_calc # -1 /\ em_co2 # -1) => Abs(em_calc - 100 * em_co2) <= 50

\* A truck loaded to a tenth, for which the two estimates differ
C13_Witness ==
    /\ em_calc > 0
    /\ em_co2 # -1
    /\ em_capacity = 10 * em_quantity
    /\ em_calc # 100 * em_co2

\* The inputs of Scenario A: one truck of 1000 kg, one material of 50 kg
\* per unit and priority 9, 15 units requested
ScenarioA ==
    /\ Len(trucks) = 1 /\ trucks[1].capacity_kg = 1000
    /\ Len(order_quantities) = 1 /\ order_quantities[1].qty2 = 2 * 15
    /\ \A n \in DOMAIN materials :
          materials[n].weight_per_unit = 2 * 50 /\ materials[n].priority = 9

\* C14 as first stated: in Scenario A the truck is loaded with 750 kg and 5
\* of the 15 units are left unallocated.
C14_ScenarioALeavesFive ==
    (pcPack = "done" /\ ScenarioA) =>
        /\ assignments[1].used_capacity_kg = 750
        /\ Len(items) = 5

\* C14: in Scenario A all 15 units are loaded, 750 kg, and none is left
\* unallocated; in general a single truck takes as many of the 50 kg units
\* as fit its capacity and the others stay in the pool (15 units on a
\* 500 kg truck: 10 loaded, 5 left).
C14_ScenarioALoadsAll ==
    pcPack = "done" =>
        LET want == order_quantities[1].qty2 \div 2
            fit  == Min2(want, trucks[1].capacity_kg \div 50)
        IN  /\ Len(assignments[1].materials_loaded) = fit
            /\ assignments[1].used_capacity_kg = 50 * fit
            /\ Len(items) = want - fit
            /\ ScenarioA =>
                  /\ assignments[1].used_capacity_kg = 750
                  /\ Len(assignments[1].materials_loaded) = 15
                  /\ items = <<>>

\* Scenario A has been packed
C14_Witness ==
    /\ pcPack = "done"
    /\ ScenarioA
    /\ assignments[1].used_capacity_kg = 750

\* Two stops whose pair saving is positive and whose demands together fit
\* the capacity ceiling
TwoStopsThatMerge ==
    /\ Len(cw_stops) = 2
    /\ Saving(cw_depot, cw_stops[1], cw_stops[2]) > 0
    /\ cw_stops[1].demand_kg + cw_stops[2].demand_kg <= cw_capacity

RoundTrips ==
    2 * DepotDist(cw_depot, cw_stops[1]) + 2 * DepotDist(cw_depot, cw_stops[2])

\* C15: for a depot and two stores with a positive pair saving and a
\* combined demand within the ceiling, _clarke_wright returns exactly one
\* route, holding both stores and their combined load, whose distance is
\* the sum of the two round trips minus the saving, hence smaller.
C15_TwoStoresMergeIntoOneRoute ==
    (cwpc = "done" /\ TwoStopsThatMerge) =>
        /\ Len(routes) = 1
        /\ routes[1].stops = <<cw_stops[1].id, cw_stops[2].id>>
        /\ routes[1].load_kg = cw_stops[1].demand_kg + cw_stops[2].demand_kg
        /\ routes[1].km
              = RoundTrips - Saving(cw_depot, cw_stops[1], cw_stops[2])
        /\ routes[1].km < RoundTrips

\* Scenario B: depot at (0,0), stores at (0,1) and (0,2), merged
C15_Witness ==
    /\ cwpc = "done"
    /\ TwoStopsThatMerge
    /\ cw_depot.lat = 0 /\ cw_depot.lon = 0
    /\ cw_stops[1].lat = 0 /\ cw_stops[1].lon = 1
    /\ cw_stops[2].lat = 0 /\ cw_stops[2].lon = 2
    /\ Len(routes) = 1

\* The weight (grams) of the required material that all stores of the
\* network hold together, for the k-th requirement
TotalStock(k) ==
    SumSeq([i \in 1..Len(net.stores) |->
               AvailUnits(net.stores[i], requirements[k].material)
                   * requirements[k].unit_weight])

OneRequirementSourced == SourcingOver /\ Len(requirements) = 1

\* C16 as first stated: a requirement whose needed weight exceeds the total
\* stock gets exactly one shortfall record, whose shortfall_kg is its
\* needed_kg minus its available_kg; a covered requirement gets none.
C16_ShortfallIsTheDifference ==
    OneRequirementSourced =>
        IF NeededKg(requirements[1]) > TotalStock(1)
        THEN /\ Len(shortfalls) = 1
             /\ shortfalls[1].shortfall_kg
                   = shortfalls[1].needed_kg - shortfalls[1].available_kg
        ELSE shortfalls = <<>>

\* C16: a requirement whose needed weight exceeds the total stock by more
\* than 0.001 kg gets exactly one shortfall record, holding the needed
\* weight, the total stock and their difference, each rounded to two
\* decimals (so shortfall_kg is within 0.01 of needed_kg - available_kg,
\* and equal to it for weights in whole hundredths); otherwise none.
C16_ShortfallIsTheRoundedDifference ==
    OneRequirementSourced =>
        LET needed == NeededKg(requirements[1])
            stock  == TotalStock(1)
        IN  IF needed - stock > ShortfallEps
            THEN /\ Len(shortfalls) = 1
                 /\ shortfalls[1].material = requirements[1].material
                 /\ shortfalls[1].needed_kg = Round2(needed)
                 /\ shortfalls[1].available_kg = Round2(stock)
                 /\ shortfalls[1].shortfall_kg = Round2(needed - stock)
                 /\ Abs(shortfalls[1].shortfall_kg
                        - (shortfalls[1].needed_kg - shortfalls[1].available_kg)) <= 10
                 /\ (needed % 10 = 0 /\ stock % 10 = 0) =>
                       shortfalls[1].shortfall_kg
                          = shortfalls[1].needed_kg - shortfalls[1].available_kg
            ELSE shortfalls = <<>>

\* Scenario C: 1000 kg needed, 600 kg in stock, 400 kg short
C16_Witness ==
    /\ pcPlan = "done"
    /\ Len(picks) = 2
    /\ shortfalls = <<[material |-> "Sand", needed_kg |-> 1000000,
                       available_kg |-> 600000, shortfall_kg |-> 400000]>>

\* The pool is complete: built and sorted, no truck packed yet
PoolBuilt == pcPack = "pack" /\ assignments = <<>>

\* C17: under rain the priority used for Cement, Sand and Wood is 1.5 times
\* the material's priority, capped at 10; every other priority is the
\* material's own.  (Priorities doubled, to stay in the integers.)
C17_RainBoostIsOneAndAHalf ==
    PoolBuilt =>
        \A k \in 1..Len(items) :
            LET own == materials[items[k].material].priority
            IN  IF rain_expected /\ items[k].material \in RainSensitive
                THEN 2 * items[k].priority = Min2(20, 3 * own)
                ELSE items[k].priority = own

\* Position of a material in the order_quantities it was enumerated from
OrderPosition(name) ==
    CHOOSE k \in 1..Len(order_quantities) : order_quantities[k].name = name

\* The ratio of a is at least the ratio of b
RatioNotBelow(a, b) == a.rnum * b.rden >= b.rnum * a.rden

\* The item a unit of the named material is in the pool
ItemOf(name) == Item(name, materials, rain_expected)

\* The elements of pool whose position f marks with b, in pool order
RECURSIVE Marked(_, _, _, _)
Marked(pool, f, b, i) ==
    IF i > Len(pool) THEN <<>>
    ELSE IF f[i] = b THEN <<pool[i]>> \o Marked(pool, f, b, i + 1)
         ELSE Marked(pool, f, b, i + 1)

\* loaded and rest are what one pass over pool gives when an item is taken
\* exactly if it fits on top of what was taken before it
GreedySplit(pool, capacity_kg, loaded, rest) ==
    \E f \in [1..Len(pool) -> BOOLEAN] :
        /\ \A i \in 1..Len(pool) :
              f[i] <=> (SumSeq([j \in 1..(i - 1) |->
                                   IF f[j] THEN pool[j].weight ELSE 0])
                        + pool[i].weight <= 2 * capacity_kg)
        /\ loaded = [k \in 1..Len(Marked(pool, f, TRUE, 1)) |->
                        Marked(pool, f, TRUE, 1)[k].material]
        /\ rest = Marked(pool, f, FALSE, 1)

\* The pool and every truck's load are in non-increasing ratio order, items
\* of equal ratio in the order of their enumeration
PoolInRatioOrder ==
    /\ \A i, j \in 1..Len(items) :
          i < j => /\ RatioNotBelow(items[i], items[j])
                   /\ RatioNotBelow(items[j], items[i]) =>
                         OrderPosition(items[i].material)
                            <= OrderPosition(items[j].material)
    /\ PoolBuilt =>
          \A e \in 1..Len(order_quantities) :
              LET n == order_quantities[e].name
              IN  Cardinality({k \in 1..Len(items) : items[k].material = n})
                     = IF n \in DOMAIN materials
                       THEN Demand(order_quantities[e].qty2) ELSE 0
    /\ \A t \in 1..Len(assignments) :
          LET l == assignments[t].materials_loaded
          IN  \A i, j \in 1..Len(l) :
                  i < j => RatioNotBelow(ItemOf(l[i]), ItemOf(l[j]))

\* One truck is packed: the next truck of the input, by one greedy pass
\* over the pool, what it takes leaving the pool
TruckPackedGreedily ==
    (pcPack = "pack" /\ assignments' # assignments) =>
        LET k == Len(assignments) + 1
        IN  /\ Len(assignments') = k
            /\ SubSeq(assignments', 1, k - 1) = assignments
            /\ assignments'[k].truck_id = trucks[k].truck_id
            /\ GreedySplit(items, trucks[k].capacity_kg,
                           assignments'[k].materials_loaded, items')

\* C18: the pool is in descending priority/weight ratio, equal ratios in
\* enumeration order, and so is every truck's materials_loaded; each truck,
\* in input order, takes an item exactly when used + weight <= capacity as
\* the item is reached, and what it takes is gone from the pool of the
\* next truck.
C18_GreedyInRatioOrder ==
    /\ [](pcPack \in {"pack", "done"} => PoolInRatioOrder)
    /\ [][TruckPackedGreedily]_vars

\* Two materials of equal ratio were ordered, and a truck passed over a
\* unit of the one enumerated first, which did not fit, and took a lighter
\* unit of the other
C18_Witness ==
    /\ pcPack = "done"
    /\ \E t \in 1..Len(assignments) :
          \E i \in 1..Len(items) :
              \E j \in 1..Len(assignments[t].materials_loaded) :
                  LET got == ItemOf(assignments[t].materials_loaded[j])
                  IN  /\ RatioNotBelow(items[i], got)
                      /\ RatioNotBelow(got, items[i])
                      /\ OrderPosition(items[i].material)
                            < OrderPosition(got.material)
                      /\ got.weight > 0
                      /\ got.weight < items[i].weight

\* Distance (metres) from a store of the network to the destination
DistToDest(id) ==
    LET st == CHOOSE x \in SeqToSet(net.stores) : x.id = id
    IN  haversine(dest.lat, dest.lon, st.lat, st.lon)

\* What the picks before the k-th have drawn for the same requirement
DrawnBefore(k) ==
    SumSeq([i \in 1..(k - 1) |->
               IF picks[i].req = picks[k].req THEN picks[i].take_kg ELSE 0])

\* C19: the picks of a requirement come in ascending distance to the
\* destination; a store is drawn only while the requirement is not yet
\* satisfied, every store carrying the material that lies strictly nearer
\* has been drawn before it for all it holds, and a store is drawn at most
\* once per requirement.
C19_NearestStoresFirst ==
    \A k \in 1..Len(picks) :
        LET p == picks[k]
            r == requirements[p.req]
        IN  /\ DrawnBefore(k) < NeededKg(r)
            /\ p.take_kg > 0
            /\ DrawnBefore(k) + p.take_kg <= NeededKg(r)
            /\ \A i \in 1..(k - 1) :
                  picks[i].req = p.req =>
                      /\ picks[i].store_id # p.store_id
                      /\ DistToDest(picks[i].store_id) <= DistToDest(p.store_id)
            /\ \A s \in 1..Len(net.stores) :
                  (/\ AvailUnits(net.stores[s], r.material) > 0
                   /\ DistToDest(net.stores[s].id) < DistToDest(p.store_id)) =>
                      \E i \in 1..(k - 1) :
                          /\ picks[i].req = p.req
                          /\ picks[i].store_id = net.stores[s].id
                          /\ picks[i].take_kg
                                = AvailUnits(net.stores[s], r.material) * r.unit_weight

\* The store listed second is the nearer one: it is drawn first and
\* emptied, the store listed first supplies the rest and keeps some stock
C19_Witness ==
    /\ pcPlan = "done"
    /\ Len(picks) = 2
    /\ picks[1].store_id = "S2" /\ picks[2].store_id = "S1"
    /\ picks[1].take_kg = picks[1].avail_kg
    /\ picks[2].take_kg < picks[2].avail_kg
    /\ shortfalls = <<>>

\* sid is the first or the last stop of the sequence
EndOf(stops, sid) == stops[1] = sid \/ stops[Len(stops)] = sid

KeptOrReversed(stops) == {stops, Reverse(stops)}

\* The pair handled by this turn of the loop is merged: its two stops lay
\* at ends of two different routes, the new route is those two routes end
\* to end, each kept or reversed, with the pair adjacent, and all other
\* routes stay
PairMerged(e) ==
    \E a, b \in 1..Len(routes) :
        /\ a # b
        /\ e.si \in SeqToSet(routes[a].stops) /\ EndOf(routes[a].stops, e.si)
        /\ e.sj \in SeqToSet(routes[b].stops) /\ EndOf(routes[b].stops, e.sj)
        /\ Len(routes') = Len(routes) - 1
        /\ \E A \in KeptOrReversed(routes[a].stops),
              B \in KeptOrReversed(routes[b].stops) :
              /\ A[Len(A)] = e.si
              /\ B[1] = e.sj
              /\ routes'[Len(routes')].stops = A \o B
        /\ {routes'[k] : k \in 1..(Len(routes') - 1)}
              = {routes[k] : k \in (1..Len(routes)) \ {a, b}}

\* The pair is not merged: every route keeps its stops, as they were or
\* reversed
NothingMerged ==
    /\ Len(routes') = Len(routes)
    /\ \A k \in 1..Len(routes) :
          routes'[k].stops \in KeptOrReversed(routes[k].stops)

\* The pair handled has a stop inside a route, or both stops in one route
NoMergePoint(e) ==
    \E a, b \in 1..Len(routes) :
        /\ e.si \in SeqToSet(routes[a].stops)
        /\ e.sj \in SeqToSet(routes[b].stops)
        /\ \/ a = b
           \/ ~EndOf(routes[a].stops, e.si)
           \/ ~EndOf(routes[b].stops, e.sj)

\* C20: a turn of the merge loop merges the routes of its pair (i, j) only
\* when i and j lie in different routes, each at an end of its route; the
\* merged route has i and j adjacent and keeps or exactly reverses the
\* order inside each of the two routes; a pair with a stop interior to its
\* route, or within one route, changes no route's membership.
C20_MergesEndToEnd ==
    [][(cwpc = "merge" /\ Len(cw_log') = Len(cw_log) + 1) =>
          LET e == savings[savIdx]
          IN  /\ IF cw_log'[Len(cw_log')].kind = "merge"
                 THEN PairMerged(e) ELSE NothingMerged
              /\ NoMergePoint(e) => NothingMerged]_vars

\* A pair whose stop lay inside a route of three stops was passed over
C20_Witness ==
    /\ cwpc = "done"
    /\ \E k \in 1..Len(cw_log) : cw_log[k].kind = "interior"
    /\ \E k \in 1..Len(routes) : Len(routes[k].stops) >= 3

\* The fleet of the depot of a depot plan, as plan_supply builds it
FleetOf(plan) ==
    TrucksOf(CHOOSE d \in SeqToSet(net.depots) : d.id = plan.depot.id)

\* C21: the routes of one depot go to the depot's trucks round-robin in
\* route order: the k-th assignment (from 0) names truck k mod T of the
\* depot's T trucks and carries the k-th route, so no truck gets a second
\* route before every truck has one.
C21_RoundRobinInRouteOrder ==
    /\ \A d \in 1..Len(depot_plans) :
          LET asg == depot_plans[d].assignments
              tr  == FleetOf(depot_plans[d])
          IN  \A k \in 1..Len(asg) :
                /\ asg[k].truck_id = tr[((k - 1) % Len(tr)) + 1].id
                /\ asg[k].capacity_kg = tr[((k - 1) % Len(tr)) + 1].cap
                /\ \A m \in 1..Len(asg) :
                      (m < k /\ asg[m].truck_id = asg[k].truck_id)
                          => k - m >= Len(tr)
    /\ (pcPlan = "depot" /\ depotIdx > 1 /\ cwpc = "done") =>
          LET asg == depot_plans[depotIdx - 1].assignments
          IN  /\ Len(asg) = Len(routes)
              /\ \A k \in 1..Len(asg) : asg[k].stops = routes[k].stops

\* Three routes of one depot on two trucks: the first truck is used twice,
\* the second once
C21_Witness ==
    /\ pcPlan = "done"
    /\ \E d \in 1..Len(depot_plans) :
          LET asg == depot_plans[d].assignments
          IN  /\ Len(asg) = 3
              /\ Len(FleetOf(depot_plans[d])) = 2
              /\ asg[1].truck_id = asg[3].truck_id
              /\ asg[2].truck_id # asg[1].truck_id

\* How many times site i is named on the route of the truck at position t
TimesOnRoute(t, i) ==
    Cardinality({p \in 1..Len(assignments[t].route) :
                    assignments[t].route[p] = sites[i].name})

\* C22: after a fallback with at least one active truck, the k-th active
\* truck drives the k-th contiguous chunk of ceil(site count / active
\* trucks) sites of the input list: depot, each site of the chunk once,
\* depot; an active truck whose chunk is empty has the route [depot] and
\* distance 0; every site is on the route of exactly one active truck,
\* exactly once.
C22_FallbackChunksCoverEverySite ==
    (pcRoute = "done" /\ FellBack) =>
        LET act == ActiveIdx(assignments)
            n   == Len(sites)
            cs  == (n + Len(act) - 1) \div Len(act)
            InChunk(k) == {i \in 1..n : (k - 1) * cs < i /\ i <= k * cs}
        IN  /\ \A k \in 1..Len(act) :
                  LET a == assignments[act[k]]
                  IN  IF InChunk(k) = {}
                      THEN a.route = <<depot.name>> /\ a.distance_km = 0
                      ELSE /\ Len(a.route) = Cardinality(InChunk(k)) + 2
                           /\ a.route[1] = depot.name
                           /\ a.route[Len(a.route)] = depot.name
                           /\ \A i \in InChunk(k) : TimesOnRoute(act[k], i) = 1
            /\ \A i \in 1..n :
                  /\ Cardinality({k \in 1..Len(act) :
                                     TimesOnRoute(act[k], i) > 0}) = 1
                  /\ \A t \in 1..Len(assignments) : TimesOnRoute(t, i) <= 1

\* Three sites fell back onto two active trucks: the first drives two
\* sites, the second one
C22_Witness ==
    /\ pcRoute = "done"
    /\ FellBack
    /\ Len(sites) = 3
    /\ Len(ActiveIdx(assignments)) = 2
    /\ Len(assignments[ActiveIdx(assignments)[1]].route) = 4
    /\ Len(assignments[ActiveIdx(assignments)[2]].route) = 3

\* The ids of the stores handed to _clarke_wright
InputStoreIds == {cw_stops[k].id : k \in 1..Len(cw_stops)}

\* The positions in routes of the routes that hold store sid
RoutesHolding(sid) == {k \in 1..Len(routes) : sid \in SeqToSet(routes[k].stops)}

\* C23: at every step of the merge loop, and on return, the routes
\* partition the input stores: each store id is in exactly one route and
\* once in it, stop_to_route maps it to the dictionary key of that route,
\* the key of a route is one of its stops, and no two live routes share a
\* key.
C23_RoutesPartitionTheStores ==
    (cwpc \in {"merge", "done"} /\ cw_stops # <<>>) =>
        /\ DOMAIN stop_to_route = InputStoreIds
        /\ \A sid \in InputStoreIds :
              /\ Cardinality(RoutesHolding(sid)) = 1
              /\ \A k \in RoutesHolding(sid) : stop_to_route[sid] = routes[k].key
        /\ \A k \in 1..Len(routes) :
              /\ routes[k].stops # <<>>
              /\ SeqToSet(routes[k].stops) \subseteq InputStoreIds
              /\ Cardinality(SeqToSet(routes[k].stops)) = Len(routes[k].stops)
              /\ routes[k].key \in SeqToSet(routes[k].stops)
              /\ \A m \in 1..Len(routes) : routes[m].key = routes[k].key => m = k

\* Four stores ended on two routes, one of them merged and then reversed in
\* place before a capacity rejection, so that its key is no longer its
\* first stop
C23_Witness ==
    /\ cwpc = "done"
    /\ Len(cw_stops) = 4
    /\ Len(routes) = 2
    /\ \E k \in 1..Len(routes) :
          /\ Len(routes[k].stops) >= 2
          /\ routes[k].key # routes[k].stops[1]
    /\ \E k \in 1..Len(cw_log) : cw_log[k].kind = "capacity"

\* How many times material m is listed as loaded, over all trucks
TimesLoaded(m) ==
    SumSeq([k \in 1..Len(assignments) |->
               Cardinality({p \in 1..Len(assignments[k].materials_loaded) :
                               assignments[k].materials_loaded[p] = m})])

\* The whole number nearest to qty2 / 2, the even one of two equally near
NearestWhole(qty2) ==
    CHOOSE n \in 0..qty2 :
        /\ Abs(2 * n - qty2) <= 1
        /\ Abs(2 * n - qty2) = 1 => n % 2 = 0

\* The quantity ordered of material m (half units), 0 when it is not ordered
OrderedOf(m) ==
    SumSeq([k \in 1..Len(order_quantities) |->
               IF order_quantities[k].name = m THEN order_quantities[k].qty2 ELSE 0])

\* C24: optimize_truck_loads never loads a unit twice and invents none: a
\* material is listed in materials_loaded, over all trucks, at most as many
\* times as its ordered quantity rounded to the nearest whole unit, and a
\* material missing from the materials map is never listed.
C24_NoUnitLoadedTwice ==
    pcPack \in {"pack", "done"} =>
        \A m \in OrderNames :
            /\ TimesLoaded(m) <= NearestWhole(OrderedOf(m))
            /\ m \notin DOMAIN materials => TimesLoaded(m) = 0

\* 2.5 units of a material were ordered next to a material without an
\* entry in the materials map; two units were loaded, one on each truck
C24_Witness ==
    /\ pcPack = "done"
    /\ Len(assignments) = 2
    /\ \E k \in 1..Len(order_quantities) :
          order_quantities[k].name \notin DOMAIN materials
    /\ \E m \in DOMAIN materials :
          /\ OrderedOf(m) = 5
          /\ TimesLoaded(m) = 2
          /\ \A k \in 1..2 : m \in SeqToSet(assignments[k].materials_loaded)

\* Free capacity (half kg) of the truck of assignment a
FreeCapacity(a) == 2 * a.capacity_kg - LoadedWeight(a)

\* C25: the packing is maximal: when optimize_truck_loads returns, every
\* unit left in the pool weighs more than the free capacity of every
\* truck, so a unit is left behind only if it fits on no truck.
C25_PackingIsMaximal ==
    pcPack = "done" =>
        \A p \in 1..Len(items), k \in 1..Len(assignments) :
            items[p].weight > FreeCapacity(assignments[k])

\* Units are left behind although both trucks have room to spare, and one
\* truck carries a unit lighter than the ones left
C25_Witness ==
    /\ pcPack = "done"
    /\ items # <<>>
    /\ Len(assignments) = 2
    /\ \A k \in 1..2 : FreeCapacity(assignments[k]) > 0
    /\ \E k \in 1..2, p \in 1..Len(items) :
          /\ assignments[k].materials_loaded # <<>>
          /\ LoadedWeight(assignments[k]) < items[p].weight

\* What all picks of the call draw from store sid of material m (grams)
DrawnFrom(sid, m) ==
    SumSeq([k \in 1..Len(picks) |->
               IF picks[k].store_id = sid /\ picks[k].material = m
               THEN picks[k].take_kg ELSE 0])

\* C26: within one plan_supply call the total weight picked from a store
\* for a material, summed over all requirements of the call, is at most
\* the store's inventory of the material.
C26_TotalDrawWithinInventory ==
    \A k \in 1..Len(picks) :
        DrawnFrom(picks[k].store_id, picks[k].material) <= StoreStock(picks[k])

\* How many times store sid is a stop, over all assignments of the plan
TimesAStop(sid) ==
    LET all == AllAssignments(depot_plans)
    IN  SumSeq([k \in 1..Len(all) |->
                   Cardinality({p \in 1..Len(all[k].stops) : all[k].stops[p] = sid})])

\* C27: all picked weight is carried: in a returned plan the load_kg of
\* all truck assignments add up to summary.total_kg and to the weight_kg of
\* all picks, every sourced store is a stop of exactly one assignment, once,
\* and summary.total_trucks is the number of assignments.
C27_AllPickedWeightIsCarried ==
    pcPlan = "done" =>
        LET all == AllAssignments(depot_plans)
            carried == SumSeq([k \in 1..Len(all) |-> all[k].load_kg])
        IN  /\ carried = SumSeq([k \in 1..Len(picks) |-> picks[k].weight_kg])
            /\ summary.total_kg = carried
            /\ summary.total_trucks = Len(all)
            /\ \A k \in 1..Len(picks) : TimesAStop(picks[k].store_id) = 1
            /\ \A k \in 1..Len(all) :
                  \A p \in 1..Len(all[k].stops) :
                      \E q \in 1..Len(picks) : picks[q].store_id = all[k].stops[p]

\* Two stores were sourced, one of them for a weight that the record
\* rounds, and their loads travel on two assignments
C27_Witness ==
    /\ pcPlan = "done"
    /\ Len(AllAssignments(depot_plans)) = 2
    /\ summary.total_kg > 0
    /\ \E k \in 1..Len(picks) : picks[k].weight_kg # picks[k].take_kg
    /\ \E k, m \in 1..Len(picks) : picks[k].store_id # picks[m].store_id

\* The positions of the queue items of material m that are pending
PendingItems(m) ==
    {k \in 1..Len(pending_reorders) :
        /\ pending_reorders[k].material = m
        /\ pending_reorders[k].status = "pending"}

StatusOf(queue, i) ==
    IF HasItem(queue, i) THEN ItemById(queue, i).status ELSE ""

\* How many times the stock of order i was added to a phase
TimesAdded(i) ==
    Cardinality({k \in 1..Len(stock_added) : stock_added[k] = i})

\* C29: under any sequence of order, approve, reject and arrived requests
\* an item only moves pending -> approved -> arrived or pending -> rejected:
\* every change of status is one of these three steps, so approve acts only
\* on a pending item, arrived only on an approved one, and an arrived or
\* rejected item never changes status again; the stock of an order is
\* added to the phase at most once.
C29_StatusOnlyMovesForward ==
    [][\A i \in 1..(MaxRequests + 1) :
          LET old == StatusOf(pending_reorders, i)
              new == StatusOf(pending_reorders', i)
          IN  /\ (old # "" /\ new # old) =>
                    \/ old = "pending" /\ new \in {"approved", "rejected"}
                    \/ old = "approved" /\ new = "arrived"
              /\ TimesAdded(i)' <= 1]_vars

\* The phases of the site, as <<material, position>> pairs
PhaseSlots == {<<m, k>> \in SiteMaterials \X (1..2) : k <= Len(history[m])}

LoggedPhase(phase) ==
    /\ phase.consumed_qty = SumSeq(phase.daily_usage)
    /\ phase.consumed_qty <= phase.ordered_qty
    /\ phase.remaining_stock =
          Max2(0, Round4(phase.ordered_qty - phase.consumed_qty))

====
